---- MODULE Spec2Model ----
(***************************************************************************)
(* Butane: a compiler from simplified rule expressions to Firebase         *)
(* security-rule expressions (lib/rules.js, lib/util.js, lib/index.js).    *)
(*                                                                         *)
(* Text is a sequence of symbols.  A symbol stands for one character of    *)
(* the source text; the words the code treats specially (next, prev,       *)
(* root, val, parent, ...) and the multi-character operators are single    *)
(* symbols of the alphabet, so that an identifier is a run of identifier   *)
(* symbols exactly as a JavaScript identifier is a run of identifier       *)
(* characters.  The regular expressions of replaceRefs work on this text,  *)
(* the other passes parse it into a syntax tree and print it back.         *)
(***************************************************************************)
EXTENDS Integers, Sequences, FiniteSets, TLC

(***************************************************************************)
(* Alphabet                                                                *)
(***************************************************************************)
Quote == {"'", "\""}
Digit == {"0", "1", "2", "3"}
BinaryOps == {"===", "==", "!==", "^"}
LogicalOps == {"&&", "||"}
Punct == {".", "(", ")", "[", "]", ",", "!", " "} \cup BinaryOps \cup LogicalOps \cup Quote

IsIdStart(c) == c \notin Punct /\ c \notin Digit
IsIdPart(c) == c \notin Punct

(***************************************************************************)
(* Syntax tree nodes (esprima).  Every node has the same four fields:      *)
(*   t  node type                                                          *)
(*   v  name of an Identifier, value of a Literal, <<operator>>            *)
(*   x  "computed"/"static" for a MemberExpression, the kind of a Literal  *)
(*   k  children: <<object, property>>, <<callee>> \o arguments,           *)
(*      <<left, right>>, <<argument>>, elements                            *)
(***************************************************************************)
Node(t, v, x, k) == [t |-> t, v |-> v, x |-> x, k |-> k]
Identifier(name) == Node("Identifier", name, "", <<>>)
Literal(kind, value) == Node("Literal", value, kind, <<>>)
MemberExpression(computed, object, property) ==
  Node("MemberExpression", <<>>, IF computed THEN "computed" ELSE "static", <<object, property>>)
CallExpression(callee, arguments) == Node("CallExpression", <<>>, "", <<callee>> \o arguments)
BinaryExpression(op, left, right) ==
  Node(IF op \in LogicalOps THEN "LogicalExpression" ELSE "BinaryExpression", <<op>>, "", <<left, right>>)
UnaryExpression(op, argument) == Node("UnaryExpression", <<op>>, "", <<argument>>)
ArrayExpression(elements) == Node("ArrayExpression", <<>>, "", elements)
\* A thrown exception, carried as a node so that it propagates through the passes.
Thrown(kind, detail) == Node("Error", detail, kind, <<>>)
IsThrown(n) == n.t = "Error"

callee(n) == n.k[1]
arguments(n) == SubSeq(n.k, 2, Len(n.k))
object(n) == n.k[1]
property(n) == n.k[2]
computed(n) == n.x = "computed"

(***************************************************************************)
(* esprima: tokens                                                         *)
(***************************************************************************)
Token(tk, v) == [tk |-> tk, v |-> v]

\* last index of the run of symbols satisfying a class that starts at i
InClass(c, digits) == IF digits THEN c \in Digit ELSE IsIdPart(c)
RunEnd(s, i, digits) ==
  CHOOSE j \in i..Len(s) :
    /\ \A m \in i..j : InClass(s[m], digits)
    /\ (j = Len(s) \/ ~InClass(s[j + 1], digits))

RECURSIVE Lex(_, _)
Lex(s, i) ==
  IF i > Len(s) THEN <<>>
  ELSE LET c == s[i] IN
    IF c = " " THEN Lex(s, i + 1)
    ELSE IF c \in Quote THEN
      LET closing == {j \in (i + 1)..Len(s) : s[j] = c} IN
      IF closing = {} THEN <<Token("err", <<>>)>>
      ELSE LET j == CHOOSE j \in closing : \A m \in closing : j <= m
           IN <<Token("str", SubSeq(s, i + 1, j - 1))>> \o Lex(s, j + 1)
    ELSE IF c \in Digit THEN
      LET j == RunEnd(s, i, TRUE)
          \* a "." right after the digits belongs to the number
          d == IF j < Len(s) /\ s[j + 1] = "." THEN j + 1 ELSE j
          e == IF d > j /\ d < Len(s) /\ s[d + 1] \in Digit THEN RunEnd(s, d + 1, TRUE) ELSE d
      IN IF e < Len(s) /\ IsIdStart(s[e + 1]) THEN <<Token("err", <<>>)>>
         ELSE <<Token("num", SubSeq(s, i, e))>> \o Lex(s, e + 1)
    ELSE IF c \in Punct THEN <<Token("p", <<c>>)>> \o Lex(s, i + 1)
    ELSE
      LET j == RunEnd(s, i, FALSE)
          name == SubSeq(s, i, j)
          tk == IF name \in {<<"true">>, <<"false">>} THEN "bool"
                ELSE IF name = <<"null">> THEN "null" ELSE "id"
      IN <<Token(tk, name)>> \o Lex(s, j + 1)

(***************************************************************************)
(* esprima: expression grammar, by increasing precedence                   *)
(*   ||   &&   ^   === == !==   !   . [] ()   primary                      *)
(***************************************************************************)
LevelOps == <<{"||"}, {"&&"}, {"^"}, {"===", "==", "!=="}>>
Parsed(n, p) == [ok |-> TRUE, n |-> n, p |-> p]
Failed == [ok |-> FALSE, n |-> Thrown("ParseError", <<>>), p |-> 0]
Tok(toks, p) == IF p <= Len(toks) THEN toks[p] ELSE Token("eof", <<>>)
IsP(tok, c) == tok.tk = "p" /\ tok.v = <<c>>

RECURSIVE PBin(_, _, _), PBinRest(_, _, _, _), PUnary(_, _), PPostRest(_, _, _),
          PPrimary(_, _), PList(_, _, _, _)

PBin(l, toks, p) ==
  IF l > Len(LevelOps) THEN PUnary(toks, p)
  ELSE LET a == PBin(l + 1, toks, p) IN
       IF a.ok THEN PBinRest(l, toks, a.n, a.p) ELSE a

PBinRest(l, toks, left, p) ==
  LET tok == Tok(toks, p) IN
  IF tok.tk = "p" /\ tok.v[1] \in LevelOps[l]
  THEN LET b == PBin(l + 1, toks, p + 1) IN
       IF b.ok THEN PBinRest(l, toks, BinaryExpression(tok.v[1], left, b.n), b.p) ELSE b
  ELSE Parsed(left, p)

PUnary(toks, p) ==
  IF IsP(Tok(toks, p), "!")
  THEN LET a == PUnary(toks, p + 1) IN
       IF a.ok THEN Parsed(UnaryExpression("!", a.n), a.p) ELSE a
  ELSE LET a == PPrimary(toks, p) IN
       IF a.ok THEN PPostRest(toks, a.n, a.p) ELSE a

PPostRest(toks, base, p) ==
  LET tok == Tok(toks, p) IN
  IF IsP(tok, ".") THEN
    LET name == Tok(toks, p + 1) IN
    IF name.tk \in {"id", "bool", "null"}
    THEN PPostRest(toks, MemberExpression(FALSE, base, Identifier(name.v)), p + 2)
    ELSE Failed
  ELSE IF IsP(tok, "[") THEN
    LET e == PBin(1, toks, p + 1) IN
    IF e.ok /\ IsP(Tok(toks, e.p), "]")
    THEN PPostRest(toks, MemberExpression(TRUE, base, e.n), e.p + 1)
    ELSE Failed
  ELSE IF IsP(tok, "(") THEN
    LET a == PList(toks, p + 1, <<>>, ")") IN
    IF a.ok THEN PPostRest(toks, CallExpression(base, a.n), a.p) ELSE Failed
  ELSE Parsed(base, p)

\* comma-separated expressions up to the closing symbol; n is the list
PList(toks, p, acc, close) ==
  IF acc = <<>> /\ IsP(Tok(toks, p), close) THEN Parsed(acc, p + 1)
  ELSE LET e == PBin(1, toks, p) IN
       IF ~e.ok THEN Failed
       ELSE IF IsP(Tok(toks, e.p), ",") THEN PList(toks, e.p + 1, Append(acc, e.n), close)
       ELSE IF IsP(Tok(toks, e.p), close) THEN Parsed(Append(acc, e.n), e.p + 1)
       ELSE Failed

PPrimary(toks, p) ==
  LET tok == Tok(toks, p) IN
  CASE tok.tk = "id" -> Parsed(Identifier(tok.v), p + 1)
    [] tok.tk \in {"num", "str", "bool", "null"} -> Parsed(Literal(tok.tk, tok.v), p + 1)
    [] IsP(tok, "(") ->
         LET e == PBin(1, toks, p + 1) IN
         IF e.ok /\ IsP(Tok(toks, e.p), ")") THEN Parsed(e.n, e.p + 1) ELSE Failed
    [] IsP(tok, "[") ->
         LET a == PList(toks, p + 1, <<>>, "]") IN
         IF a.ok THEN Parsed(ArrayExpression(a.n), a.p) ELSE Failed
    [] OTHER -> Failed

\* esprima.parse(expression).body[0], without the ExpressionStatement wrapper:
\* the result is the statement's expression, or the exception thrown.
parseExpression(expression) ==
  LET toks == Lex(expression, 1)
      r == PBin(1, toks, 1)
  IN IF r.ok /\ r.p = Len(toks) + 1 THEN r.n ELSE Thrown("ParseError", <<>>)

(***************************************************************************)
(* escodegen: print with the parentheses precedence requires               *)
(***************************************************************************)
Precedence(n) ==
  CASE n.t \in {"LogicalExpression", "BinaryExpression"} ->
         CHOOSE l \in 1..Len(LevelOps) : n.v[1] \in LevelOps[l]
    [] n.t = "UnaryExpression" -> 5
    [] n.t \in {"CallExpression", "MemberExpression"} -> 6
    [] OTHER -> 7

RECURSIVE Generate(_, _), GenerateList(_)

Generate(n, min) ==
  LET body ==
    CASE n.t = "Identifier" -> n.v
      [] n.t = "Literal" ->
           IF n.x = "str" THEN <<"'">> \o n.v \o <<"'">> ELSE n.v
      [] n.t = "MemberExpression" ->
           IF computed(n)
           THEN Generate(object(n), 6) \o <<"[">> \o Generate(property(n), 0) \o <<"]">>
           ELSE Generate(object(n), 6)
                  \o (IF object(n).t = "Literal" /\ object(n).x = "num" THEN <<" ">> ELSE <<>>)
                  \o <<".">> \o Generate(property(n), 0)
      [] n.t = "CallExpression" ->
           Generate(callee(n), 6) \o <<"(">> \o GenerateList(arguments(n)) \o <<")">>
      [] n.t \in {"LogicalExpression", "BinaryExpression"} ->
           Generate(n.k[1], Precedence(n)) \o <<" ", n.v[1], " ">>
             \o Generate(n.k[2], Precedence(n) + 1)
      [] n.t = "UnaryExpression" -> n.v \o Generate(n.k[1], 5)
      [] n.t = "ArrayExpression" -> <<"[">> \o GenerateList(n.k) \o <<"]">>
      [] OTHER -> <<>>
  IN IF Precedence(n) < min THEN <<"(">> \o body \o <<")">> ELSE body

GenerateList(ns) ==
  IF ns = <<>> THEN <<>>
  ELSE IF Len(ns) = 1 THEN Generate(ns[1], 0)
  ELSE Generate(ns[1], 0) \o <<",", " ">> \o GenerateList(Tail(ns))

\* escodegen.generate(syntax).replace(/;$/, '')
stringifySyntax(syntax) == Generate(syntax, 0)

(***************************************************************************)
(* JavaScript objects: ordered key/value entries (insertion order)         *)
(***************************************************************************)
Entry(key, val) == [key |-> key, val |-> val]
HasKey(ents, key) == \E i \in 1..Len(ents) : ents[i].key = key
IndexOf(ents, key) == CHOOSE i \in 1..Len(ents) : ents[i].key = key
Get(ents, key) == ents[IndexOf(ents, key)].val
\* obj[key] = val: an existing key keeps its place, a new key goes last
Put(ents, key, val) ==
  IF HasKey(ents, key)
  THEN [ents EXCEPT ![IndexOf(ents, key)] = Entry(key, val)]
  ELSE Append(ents, Entry(key, val))
RECURSIVE Delete(_, _)
Delete(ents, key) ==
  IF ents = <<>> THEN <<>>
  ELSE IF Head(ents).key = key THEN Delete(Tail(ents), key)
  ELSE <<Head(ents)>> \o Delete(Tail(ents), key)
KeysOf(ents) == [i \in 1..Len(ents) |-> ents[i].key]

(***************************************************************************)
(* Rule trees: a value is a string, a boolean/number, or an object         *)
(***************************************************************************)
Str(text) == [kind |-> "string", text |-> text, ents |-> <<>>]
Scalar(text) == [kind |-> "scalar", text |-> text, ents |-> <<>>]
Obj(ents) == [kind |-> "object", text |-> <<>>, ents |-> ents]

FUNCTIONS == <<".functions">>
REFS == <<".refs">>
PARENT == <<".parent">>
SPECIAL_KEYS == <<FUNCTIONS, REFS, PARENT>>

\* value of a special key that is an object, {} when the key is absent
PickSpecial(ents, key) ==
  IF HasKey(ents, key) /\ Get(ents, key).kind = "object" THEN Get(ents, key).ents ELSE <<>>

(***************************************************************************)
(* Entries of the options record.  A declaration is a bare string until    *)
(* expandRefs / expandFunctions turn it into an object.                    *)
(*   ref: {value, depth}       depth = NoDepth when it is not a number     *)
(*   function: {body, name, args}   name = Undefined when the callee of    *)
(*   the declaration has no .name                                          *)
(***************************************************************************)
NoDepth == -1
Undefined == <<>>
RefString(value) == [isString |-> TRUE, value |-> value, depth |-> NoDepth]
RefDef(value, depth) == [isString |-> FALSE, value |-> value, depth |-> depth]
FnString(body) == [isString |-> TRUE, body |-> body, name |-> Undefined, args |-> <<>>]
FunctionDef(body, name, args) == [isString |-> FALSE, body |-> body, name |-> name, args |-> args]

NoParent == [defined |-> FALSE, keys |-> <<>>]
ParentOf(keys) == [defined |-> TRUE, keys |-> keys]
Options(functions, refs, parent) == [functions |-> functions, refs |-> refs, parent |-> parent]
EmptyOptions == Options(<<>>, <<>>, NoParent)

RECURSIVE merge_Mutant(_, _), merge(_, _)
\* a key that is there keeps its value
merge_Mutant(dst, src) ==
  IF src = <<>> THEN dst
  ELSE merge_Mutant(IF HasKey(dst, Head(src).key) THEN dst ELSE Put(dst, Head(src).key, Head(src).val),
                    Tail(src))
\* lodash merge of one map of declarations into another: a source value
\* replaces the destination value under the same key (a string always does;
\* the objects of this model carry all their fields), new keys are appended.
\* The destination is a fresh object, so the source is never changed.
merge(dst, src) ==
  IF src = <<>> THEN dst
  ELSE merge(Put(dst, Head(src).key, Head(src).val), Tail(src))

RECURSIVE AppendNew(_, _)
AppendNew(keys, more) ==
  IF more = <<>> THEN keys
  ELSE AppendNew(IF \E i \in 1..Len(keys) : keys[i] = Head(more) THEN keys ELSE Append(keys, Head(more)),
                 Tail(more))

(***************************************************************************)
(* util.expandRefs                                                         *)
(***************************************************************************)
\* an inherited ref keeps depth 0
expandRef_Mutant(ref) == RefDef(ref.value, 0)
\* if (isString(ref)) ref = {value: ref}; ref.depth = isNumber(ref.depth) ? ++ref.depth : 0
expandRef(ref) ==
  IF ref.isString THEN RefDef(ref.value, 0)
  ELSE RefDef(ref.value, IF ref.depth # NoDepth THEN ref.depth + 1 ELSE 0)

expandRefs(refs) == [i \in 1..Len(refs) |-> Entry(refs[i].key, expandRef(refs[i].val))]

(***************************************************************************)
(* util.expandFunctions                                                    *)
(***************************************************************************)
NameOf(n) == IF n.t = "Identifier" THEN n.v ELSE Undefined

\* TRUE when the declaration key makes expandFunctions throw
InvalidSyntax(syntax) ==
  \/ IsThrown(syntax)
  \/ syntax.t # "CallExpression"
  \/ \E i \in 1..Len(arguments(syntax)) : arguments(syntax)[i].t # "Identifier"
InvalidDeclaration(fnName) == InvalidSyntax(parseExpression(fnName))

\* if (isString(fn)) fn = {body: fn, name: ..., args: ...}
expandedFn(syntax, fn) ==
  IF fn.isString
  THEN FunctionDef(fn.body, NameOf(callee(syntax)),
                   [i \in 1..Len(arguments(syntax)) |-> arguments(syntax)[i].v])
  ELSE fn
expandFunction(fnName, fn) == expandedFn(parseExpression(fnName), fn)

\* bad: the indices of the invalid keys; the first one throws
expandValid(functions, bad) ==
  IF bad # {}
  THEN [threw |-> TRUE,
        error |-> functions[CHOOSE i \in bad : \A j \in bad : i <= j].key,
        functions |-> functions]
  ELSE [threw |-> FALSE, error |-> <<>>,
        functions |-> [i \in 1..Len(functions) |->
                         Entry(functions[i].key, expandFunction(functions[i].key, functions[i].val))]]
\* the entries in order
expandFunctions(functions) ==
  expandValid(functions, {i \in 1..Len(functions) : InvalidDeclaration(functions[i].key)})

(***************************************************************************)
(* rules.getOptions                                                        *)
(***************************************************************************)
IsWildcard(key) == key # <<>> /\ key[1] = "$"

\* refs[key] = 'prev' for every $wildcard key of the parent ruleset
RECURSIVE injectWildcards(_, _)
injectWildcards(refs, keys) ==
  IF keys = <<>> THEN refs
  ELSE injectWildcards(IF IsWildcard(Head(keys)) THEN Put(refs, Head(keys), RefString(<<"prev">>)) ELSE refs,
                       Tail(keys))

\* the declarations of a ruleset node as option entries
RefDecls(ents) ==
  LET d == PickSpecial(ents, REFS) IN [i \in 1..Len(d) |-> Entry(d[i].key, RefString(d[i].val.text))]
FnDecls(ents) ==
  LET d == PickSpecial(ents, FUNCTIONS) IN [i \in 1..Len(d) |-> Entry(d[i].key, FnString(d[i].val.text))]

\* .refs is left in the ruleset
RemoveSpecial_Mutant(ents) == Delete(Delete(ents, FUNCTIONS), PARENT)
\* SPECIAL_KEYS.forEach(key => delete rules[key])
RemoveSpecial(ents) == Delete(Delete(Delete(ents, FUNCTIONS), REFS), PARENT)

\* rules: the entries of the ruleset node.  The result carries the node as
\* the call leaves it (special keys removed), also when the call throws.
\* options['.parent'] = rules; return options
optionsFor(fns, refs, stripped) ==
  [threw |-> fns.threw,
   error |-> fns.error,
   rules |-> stripped,
   options |-> Options(fns.functions, refs, ParentOf(KeysOf(stripped)))]

getOptions(rules, options) ==
  LET functions == merge(merge(<<>>, options.functions), FnDecls(rules))
      parent == IF HasKey(rules, PARENT)
                THEN ParentOf(AppendNew(options.parent.keys, KeysOf(PickSpecial(rules, PARENT))))
                ELSE options.parent
      refs == expandRefs(injectWildcards(merge(merge(<<>>, options.refs), RefDecls(rules)),
                                         IF parent.defined THEN parent.keys ELSE <<>>))
  IN optionsFor(expandFunctions(functions), refs, RemoveSpecial(rules))

(***************************************************************************)
(* rules.replaceRefs                                                       *)
(***************************************************************************)
PARENT_CALL == <<".", "parent", "(", ")">>

RECURSIVE repeat(_, _)
repeat(s, n) == IF n <= 0 THEN <<>> ELSE s \o repeat(s, n - 1)

\* the pattern \^NAME matches at i
MatchesAt(value, i, name) ==
  /\ i + Len(name) <= Len(value)
  /\ value[i] = "^"
  /\ SubSeq(value, i + 1, i + Len(name)) = name

\* the optional group (?:\((next|prev)\))? matches at j
KeywordAt(value, j) ==
  /\ j + 2 <= Len(value)
  /\ value[j] = "("
  /\ value[j + 1] \in {"next", "prev"}
  /\ value[j + 2] = ")"

\* const snapshot = keyword || ref.value
snapshotOf(keyword, ref) == IF keyword # Undefined THEN keyword ELSE ref.value
\* one .parent() too many
parentsOf_Mutant(ref) == repeat(PARENT_CALL, ref.depth + 1)
\* const parents = repeat('.parent()', ref.depth)
parentsOf(ref) == repeat(PARENT_CALL, ref.depth)

\* value.replace(pattern, ...) with the global flag, for one ref
RECURSIVE replaceRef(_, _, _, _)
replaceRef(value, i, name, ref) ==
  IF i > Len(value) THEN <<>>
  ELSE IF MatchesAt(value, i, name) THEN
    LET j == i + Len(name) + 1
        keyword == KeywordAt(value, j)
        snapshot == snapshotOf(IF keyword THEN <<value[j + 1]>> ELSE Undefined, ref)
    IN snapshot \o parentsOf(ref) \o replaceRef(value, IF keyword THEN j + 3 ELSE j, name, ref)
  ELSE <<value[i]>> \o replaceRef(value, i + 1, name, ref)

RECURSIVE replaceRefsFrom(_, _, _)
replaceRefsFrom(value, refs, i) ==
  IF i > Len(refs) THEN value
  ELSE replaceRefsFrom(replaceRef(value, 1, refs[i].key, refs[i].val), refs, i + 1)

replaceRefs(value, options) == replaceRefsFrom(value, options.refs, 1)

(***************************************************************************)
(* Exceptions inside a syntax tree, in the order the walk meets them       *)
(***************************************************************************)
RECURSIVE ThrownIn(_), ThrownInList(_)
ThrownIn(n) == IF IsThrown(n) THEN <<n>> ELSE ThrownInList(n.k)
ThrownInList(ns) == IF ns = <<>> THEN <<>> ELSE ThrownIn(Head(ns)) \o ThrownInList(Tail(ns))
\* the tree, or the first exception thrown while it was built
Raise(n) == IF ThrownIn(n) = <<>> THEN n ELSE Head(ThrownIn(n))

(***************************************************************************)
(* REGISTERED_FUNCTIONS: name -> callback.  A callback gets the evaluated  *)
(* arguments (JavaScript values) and returns a text.                       *)
(***************************************************************************)
JsValue(kind, text, elems) == [kind |-> kind, text |-> text, elems |-> elems]
JsThrow == JsValue("throw", <<>>, <<>>)

\* eval(stringifySyntax(arg)) for the arguments of this model: literals and
\* arrays of literals evaluate to their value, a free identifier throws.
RECURSIVE eval(_)
eval(arg) ==
  IF arg.t = "Literal" THEN JsValue(arg.x, arg.v, <<>>)
  ELSE IF arg.t = "ArrayExpression" THEN
    LET elems == [i \in 1..Len(arg.k) |-> eval(arg.k[i])] IN
    IF \E i \in 1..Len(elems) : elems[i].kind = "throw" THEN JsThrow
    ELSE JsValue("array", <<>>, elems)
  ELSE JsThrow

\* `${value}`
RECURSIVE TemplateString(_), JoinValues(_, _)
TemplateString(val) == IF val.kind = "array" THEN JoinValues(val.elems, <<",">>) ELSE val.text
JoinValues(vals, sep) ==
  IF vals = <<>> THEN <<>>
  ELSE IF Len(vals) = 1 THEN TemplateString(vals[1])
  ELSE TemplateString(vals[1]) \o sep \o JoinValues(Tail(vals), sep)

RECURSIVE oneOfJoin(_, _)
oneOfJoin(keys, snapshot) ==
  IF keys = <<>> THEN <<>>
  ELSE LET key == IF Head(keys).kind = "str" THEN <<"'">> \o Head(keys).text \o <<"'">>
                  ELSE TemplateString(Head(keys))
           part == snapshot \o <<" ", "===", " ">> \o key
       IN IF Len(keys) = 1 THEN part ELSE part \o <<"||">> \o oneOfJoin(Tail(keys), snapshot)

\* the snapshot is next whatever the second argument
oneOf_Mutant(args) ==
  oneOfJoin(IF Len(args) >= 1 /\ args[1].kind = "array" THEN args[1].elems ELSE args, <<"next">>)
\* REGISTERED_FUNCTIONS.oneOf(keys, snapshot = 'next')
oneOf(args) ==
  LET isArray == Len(args) >= 1 /\ args[1].kind = "array"
      keys == IF isArray THEN args[1].elems ELSE args
      snapshot == IF isArray /\ Len(args) >= 2 THEN TemplateString(args[2]) ELSE <<"next">>
  IN oneOfJoin(keys, snapshot)

\* a callback of the test suite:
\*   (snapshot, value) => `${snapshot}.hello.world === true && foo(${snapshot})`
custom(args) ==
  LET snapshot == IF Len(args) >= 1 THEN TemplateString(args[1]) ELSE <<"undefined">>
  IN snapshot \o <<".", "hello", ".", "world", " ", "===", " ", "true", " ", "&&", " ", "foo", "(">>
       \o snapshot \o <<")">>

\* fn(...args) for the callback registered under an identifier
Callback(id, args) ==
  CASE id = "oneOf" -> oneOf(args)
    [] id = "custom" -> custom(args)
    [] OTHER -> <<>>

\* the first registration of a name is kept
registerFunction_Mutant(reg, name, fn) == IF HasKey(reg, name) THEN reg ELSE Put(reg, name, fn)
\* registerFunction(name, fn)
registerFunction(reg, name, fn) == Put(reg, name, fn)

BuiltinRegistry == <<Entry(<<"oneOf">>, "oneOf")>>

(***************************************************************************)
(* rules.replaceFunctions                                                  *)
(***************************************************************************)
FirstIndex(seq, e) == CHOOSE i \in 1..Len(seq) : seq[i] = e /\ \A j \in 1..(i - 1) : seq[j] # e
Includes(seq, e) == \E i \in 1..Len(seq) : seq[i] = e

\* walkFn: the function body with the argument identifiers replaced.  A
\* replaced node is not walked again; the property of a non-computed
\* member access is skipped.
\* the first argument, whatever the parameter
argumentFor_Mutant(node, fn, args) == IF args # <<>> THEN args[1] ELSE node
\* const arg = args[fn.args.indexOf(node.name)]; if (arg) parentNode[key] = arg
argumentFor(node, fn, args) ==
  LET i == FirstIndex(fn.args, node.v) IN
  IF i <= Len(args) THEN args[i] ELSE node

RECURSIVE walkFn_Mutant(_, _, _), walkFn(_, _, _)
\* the property of a static access is walked like any other child
walkFn_Mutant(node, fn, args) ==
  IF node.t = "Identifier" /\ Includes(fn.args, node.v) THEN argumentFor(node, fn, args)
  ELSE [node EXCEPT !.k = [i \in 1..Len(node.k) |-> walkFn_Mutant(node.k[i], fn, args)]]
walkFn(node, fn, args) ==
  IF node.t = "Identifier" /\ Includes(fn.args, node.v) THEN argumentFor(node, fn, args)
  ELSE IF node.t = "MemberExpression" /\ ~computed(node) THEN
    [node EXCEPT !.k = <<walkFn(object(node), fn, args), property(node)>>]
  ELSE [node EXCEPT !.k = [i \in 1..Len(node.k) |-> walkFn(node.k[i], fn, args)]]

\* no function is declared
fnNames_Mutant(fns) == <<>>
\* const fnNames = Object.values(fns).map(fn => fn.name)
fnNames(fns) == [i \in 1..Len(fns) |-> fns[i].val.name]
\* find(Object.values(fns), ({name}) => name === callee.name)
findFn(fns, name) == fns[FirstIndex(fnNames(fns), name)].val

\* one parameter after the other: the body is walked once for each
\* parameter, the arguments grafted before included
RECURSIVE walkFnEach(_, _, _, _)
walkFnEach(node, fn, args, i) ==
  IF i > Len(fn.args) THEN node
  ELSE walkFnEach(walkFn(node, [fn EXCEPT !.args = <<fn.args[i]>>],
                         IF i <= Len(args) THEN <<args[i]>> ELSE <<>>),
                  fn, args, i + 1)
walkFnSyntax_Mutant(fnSyntax, fn, args) ==
  IF IsThrown(fnSyntax) THEN fnSyntax ELSE walkFnEach(fnSyntax, fn, args, 1)
\* walkFn(fnSyntax): fnSyntax is the parsed body
walkFnSyntax(fnSyntax, fn, args) ==
  IF IsThrown(fnSyntax) THEN fnSyntax ELSE walkFn(fnSyntax, fn, args)

\* args and body have had their own functions replaced; an exception thrown
\* for an argument comes before one thrown for the body
inlineFn(fn, args, body) ==
  IF ThrownInList(args) # <<>> THEN Head(ThrownInList(args))
  ELSE IF IsThrown(body) THEN body
  ELSE walkFnSyntax(parseExpression(stringifySyntax(body)), fn, args)

\* parentNode[key] = parseExpression(fn(...args)).expression
callRegistered(args, code) ==
  IF \E i \in 1..Len(args) : args[i].kind = "throw" THEN Thrown("ReferenceError", <<>>)
  \* esprima.parse('').body[0] is undefined
  ELSE IF Lex(code, 1) = <<>> THEN Thrown("TypeError", <<>>)
  ELSE parseExpression(code)

\* fuel: the call stack that is left; an exhausted stack throws RangeError
RECURSIVE replaceFunctionsSyntax(_, _, _, _), walkValue(_, _, _, _), walkValueSyntax(_, _, _, _)

walkValue(node, options, registry, fuel) ==
  LET isCallExpression == node.t = "CallExpression"
      name == IF isCallExpression THEN NameOf(callee(node)) ELSE Undefined
  IN
  IF isCallExpression /\ Includes(fnNames(options.functions), name) THEN
    inlineFn(findFn(options.functions, name),
             [i \in 1..Len(arguments(node)) |->
                replaceFunctionsSyntax(stringifySyntax(arguments(node)[i]), options, registry, fuel - 1)],
             replaceFunctionsSyntax(findFn(options.functions, name).body, options, registry, fuel - 1))
  ELSE IF isCallExpression /\ HasKey(registry, name) THEN
    LET args == [i \in 1..Len(arguments(node)) |-> eval(arguments(node)[i])]
    IN callRegistered(args, Callback(Get(registry, name), args))
  ELSE [node EXCEPT !.k = [i \in 1..Len(node.k) |-> walkValue(node.k[i], options, registry, fuel)]]

\* walkValue(valueSyntax): valueSyntax is the parsed value
walkValueSyntax(valueSyntax, options, registry, fuel) ==
  IF IsThrown(valueSyntax) THEN valueSyntax
  ELSE Raise(walkValue(valueSyntax, options, registry, fuel))

replaceFunctionsSyntax(value, options, registry, fuel) ==
  IF fuel <= 0 THEN Thrown("RangeError", <<>>)
  ELSE walkValueSyntax(parseExpression(value), options, registry, fuel)

\* the result of a pass: the code it returns, or the exception it throws
Result(syntax) ==
  IF IsThrown(syntax) THEN [threw |-> TRUE, error |-> syntax.x, code |-> <<>>]
  ELSE [threw |-> FALSE, error |-> "", code |-> stringifySyntax(syntax)]

MaxStack == 4
replaceFunctions(value, options, registry) ==
  Result(replaceFunctionsSyntax(value, options, registry, MaxStack))

(***************************************************************************)
(* util.getMemberExpressionRootName: the name of the last Identifier met   *)
(* on a walk that skips `property` children and arrays; Undefined stands   *)
(* for null.                                                               *)
(***************************************************************************)
RECURSIVE getMemberExpressionRootName(_)
getMemberExpressionRootName(node) ==
  CASE node.t = "Identifier" -> node.v
    [] node.t = "MemberExpression" -> getMemberExpressionRootName(object(node))
    [] node.t = "CallExpression" -> getMemberExpressionRootName(callee(node))
    [] node.t = "UnaryExpression" -> getMemberExpressionRootName(node.k[1])
    [] node.t \in {"BinaryExpression", "LogicalExpression"} ->
         LET right == getMemberExpressionRootName(node.k[2]) IN
         IF right # Undefined THEN right ELSE getMemberExpressionRootName(node.k[1])
    [] OTHER -> Undefined

(***************************************************************************)
(* util.hasCallExpressionIdentifier: "true", "false", or "TypeError" when  *)
(* the walk reaches a call whose callee has no .property                   *)
(***************************************************************************)
RECURSIVE hasCallWalk(_, _)
hasCallWalk(node, name) ==
  LET kids == [i \in 1..Len(node.k) |-> hasCallWalk(node.k[i], name)]
      below == [found |-> \E i \in 1..Len(kids) : kids[i].found,
                threw |-> \E i \in 1..Len(kids) : kids[i].threw]
  IN IF node.t = "CallExpression" THEN
       IF callee(node).t # "MemberExpression" THEN [found |-> FALSE, threw |-> TRUE]
       ELSE IF NameOf(property(callee(node))) = name THEN [found |-> TRUE, threw |-> FALSE]
       ELSE below
     ELSE below

\* the call is never found
hasCallExpressionIdentifier_Mutant(rootNode, name) == "false"
hasCallExpressionIdentifier(rootNode, name) ==
  LET r == hasCallWalk(rootNode, name) IN
  IF r.threw THEN "TypeError" ELSE IF r.found THEN "true" ELSE "false"

(***************************************************************************)
(* rules.coerceVal                                                         *)
(***************************************************************************)
SNAPSHOT_IDENTIFIERS == <<Entry(<<"next">>, <<"newData">>), Entry(<<"prev">>, <<"data">>),
                          Entry(<<"root">>, <<"root">>)>>
IGNORE_IDENTIFIERS == <<<<"auth">>>>
VAL == Identifier(<<"val">>)

\* no child is skipped
skipped_Mutant(node, childKey) == FALSE
\* if (node.type === 'CallExpression' && childKey === 'callee') continue
\* (the callee is the first child of a call)
skipped(node, childKey) == node.t = "CallExpression" /\ childKey = 1

RECURSIVE coerceVal_walk(_)
coerceVal_walk(node) ==
  IF node.t \in {"MemberExpression", "Identifier"} THEN
    IF ~HasKey(SNAPSHOT_IDENTIFIERS, getMemberExpressionRootName(node)) THEN node
    ELSE LET has == hasCallExpressionIdentifier(node, <<"val">>) IN
      IF has = "TypeError" THEN Thrown("TypeError", <<>>)
      ELSE IF has = "true" THEN node
      ELSE CallExpression(MemberExpression(FALSE, node, VAL), <<>>)
  ELSE [node EXCEPT !.k = [i \in 1..Len(node.k) |->
                            IF skipped(node, i) THEN node.k[i] ELSE coerceVal_walk(node.k[i])]]

\* walk(syntax)
coerceVal_walked(syntax) == IF IsThrown(syntax) THEN syntax ELSE Raise(coerceVal_walk(syntax))
coerceValSyntax(value) == coerceVal_walked(parseExpression(value))

coerceVal(value) == Result(coerceValSyntax(value))

(***************************************************************************)
(* rules.replaceChildSyntax                                                *)
(*   key: the key under which the node hangs in its parent                 *)
(***************************************************************************)
CHILD == Identifier(<<"child">>)

RECURSIVE replaceChildSyntaxSyntax(_), filterMemeberExpression(_), replaceChildSyntax_walkValue(_, _),
          replaceChildSyntax_walked(_)

filterMemeberExpression(node) ==
  IF Includes(IGNORE_IDENTIFIERS, getMemberExpressionRootName(node)) THEN node
  ELSE replaceChildSyntaxSyntax(stringifySyntax(node))

\* an identifier index is quoted like a property name
childArgument_Mutant(prop, isParentComputed) ==
  IF prop.t = "MemberExpression" THEN filterMemeberExpression(prop)
  ELSE IF prop.t = "Identifier" THEN Literal("str", prop.v)
  ELSE IF prop.t = "Literal" THEN prop
  ELSE Thrown("TypeError", <<>>)
\* the argument of the child() call, from the property of the access
childArgument(prop, isParentComputed) ==
  IF prop.t = "MemberExpression" THEN filterMemeberExpression(prop)
  ELSE IF isParentComputed /\ prop.t = "Identifier" THEN Identifier(prop.v)
  ELSE IF prop.t = "Identifier" THEN Literal("str", prop.v)
  ELSE IF prop.t = "Literal" THEN prop
  \* {type: 'Literal', value: undefined}: escodegen cannot print it
  ELSE Thrown("TypeError", <<>>)

replaceChildSyntax_walkValue(node, key) ==
  CASE node.t = "CallExpression" ->
         LET args == [i \in 1..Len(arguments(node)) |-> filterMemeberExpression(arguments(node)[i])]
         IN CallExpression(replaceChildSyntax_walkValue(callee(node), "callee"), args)
    [] node.t = "MemberExpression" ->
         IF Includes(IGNORE_IDENTIFIERS, getMemberExpressionRootName(node)) THEN node
         ELSE
           LET obj == replaceChildSyntax_walkValue(object(node), "object")
               prop == property(node)
               isIdentifier == prop.t = "Identifier"
               isCallIdentifier == isIdentifier /\ key = "callee"
               isParentComputed == computed(node)
               argument == childArgument(prop, isParentComputed)
           IN IF ~isCallIdentifier \/ isParentComputed
              THEN CallExpression(MemberExpression(FALSE, obj, CHILD), <<argument>>)
              ELSE MemberExpression(FALSE, obj, prop)
    [] node.t \in {"BinaryExpression", "LogicalExpression"} ->
         [node EXCEPT !.k = <<replaceChildSyntax_walkValue(node.k[1], "left"),
                              replaceChildSyntax_walkValue(node.k[2], "right")>>]
    [] node.t = "UnaryExpression" ->
         [node EXCEPT !.k = <<replaceChildSyntax_walkValue(node.k[1], "argument")>>]
    \* Identifier, Literal; the elements of an ArrayExpression are an array and are not walked
    [] OTHER -> node

\* walkValue(syntax)
replaceChildSyntax_walked(syntax) ==
  IF IsThrown(syntax) THEN syntax ELSE Raise(replaceChildSyntax_walkValue(syntax, "expression"))
replaceChildSyntaxSyntax(value) == replaceChildSyntax_walked(parseExpression(value))

replaceChildSyntax(value) == Result(replaceChildSyntaxSyntax(value))

(***************************************************************************)
(* rules.replaceFirebaseIdentifiers                                        *)
(***************************************************************************)
RECURSIVE replaceFirebaseIdentifiers_walk(_, _)
replaceFirebaseIdentifiers_walk(node, key) ==
  IF node.t = "Identifier" /\ key # "property" THEN
    IF HasKey(SNAPSHOT_IDENTIFIERS, node.v) THEN Identifier(Get(SNAPSHOT_IDENTIFIERS, node.v)) ELSE node
  ELSE IF node.t = "MemberExpression" THEN
    [node EXCEPT !.k = <<replaceFirebaseIdentifiers_walk(object(node), "object"),
                         replaceFirebaseIdentifiers_walk(property(node), "property")>>]
  ELSE [node EXCEPT !.k = [i \in 1..Len(node.k) |-> replaceFirebaseIdentifiers_walk(node.k[i], "child")]]

\* walk(syntax)
replaceFirebaseIdentifiers_walked(syntax) ==
  IF IsThrown(syntax) THEN syntax ELSE replaceFirebaseIdentifiers_walk(syntax, "expression")
replaceFirebaseIdentifiersSyntax(value) == replaceFirebaseIdentifiers_walked(parseExpression(value))

replaceFirebaseIdentifiers(value) == Result(replaceFirebaseIdentifiersSyntax(value))

(***************************************************************************)
(* rules.parse                                                             *)
(***************************************************************************)
\* rule = pass(rule): a pass that throws ends the compilation
andThen(r, pass(_)) == IF r.threw THEN r ELSE pass(r.code)

\* value coercion after child-syntax desugaring
compile_Mutant(rule, options, reg) ==
  andThen(andThen(andThen(replaceFunctions(replaceRefs(rule, options), options, reg),
                          replaceChildSyntax),
                  coerceVal),
          replaceFirebaseIdentifiers)
\* case 'string': the five passes, each on the code the one before returned
compile(rule, options, reg) ==
  andThen(andThen(andThen(replaceFunctions(replaceRefs(rule, options), options, reg),
                          coerceVal),
                  replaceChildSyntax),
          replaceFirebaseIdentifiers)

Returned(rules) == [threw |-> FALSE, error |-> [kind |-> "", detail |-> <<>>], rules |-> rules]
Aborted(kind, detail, rules) == [threw |-> TRUE, error |-> [kind |-> kind, detail |-> detail], rules |-> rules]

\* rules is mutated in place: when a call throws, rules is the ruleset as the
\* exception leaves it
RECURSIVE parse(_, _, _), parseEntries_Mutant(_, _, _, _), parseEntries(_, _, _, _), parseObject(_, _, _, _, _),
          parseString(_, _, _, _, _), parseWith(_, _)

\* case 'object': rule = parse(rule, options); r is what the call gave
parseObject(rules, i, r, options, reg) ==
  LET walked == [rules EXCEPT ![i] = Entry(rules[i].key, Obj(r.rules))]
  IN IF r.threw THEN [r EXCEPT !.rules = walked]
     ELSE parseEntries(walked, i + 1, options, reg)

\* case 'string': r is what the passes gave
parseString(rules, i, r, options, reg) ==
  IF r.threw THEN Aborted(r.error, <<>>, rules)
  ELSE parseEntries([rules EXCEPT ![i] = Entry(rules[i].key, Str(r.code))], i + 1, options, reg)

\* every value that is not an object is compiled
parseEntries_Mutant(rules, i, options, reg) ==
  IF i > Len(rules) THEN Returned(rules)
  ELSE IF rules[i].val.kind = "object"
    THEN parseObject(rules, i, parse(rules[i].val.ents, options, reg), options, reg)
  ELSE parseString(rules, i, compile(rules[i].val.text, options, reg), options, reg)
\* for (let [key, rule] of Object.entries(rules)), from the i-th entry on
parseEntries(rules, i, options, reg) ==
  IF i > Len(rules) THEN Returned(rules)
  ELSE IF rules[i].val.kind = "object"
    THEN parseObject(rules, i, parse(rules[i].val.ents, options, reg), options, reg)
  ELSE IF rules[i].val.kind = "string"
    THEN parseString(rules, i, compile(rules[i].val.text, options, reg), options, reg)
  ELSE parseEntries(rules, i + 1, options, reg)

\* o: options = getOptions(rules, options)
parseWith(o, reg) ==
  IF o.threw THEN Aborted("Invalid .function declaration", o.error, o.rules)
  ELSE parseEntries(o.rules, 1, o.options, reg)

parse(rules, options, reg) == parseWith(getOptions(rules, options), reg)

(***************************************************************************)
(* State: the registry of native functions, and the call under way         *)
(*   op   the function called                                              *)
(*   pc   "call" before the function has run, "done" after                 *)
(*   arg  its arguments, ret its result                                    *)
(***************************************************************************)
VARIABLES registry, op, pc, arg, ret
vars == <<registry, op, pc, arg, ret>>

Nothing == <<>>
Done(f) == op = f /\ pc = "done"

\* all sequences of at most n elements of S
RECURSIVE SeqsUpTo(_, _)
SeqsUpTo(S, n) ==
  IF n = 0 THEN {<<>>}
  ELSE LET shorter == SeqsUpTo(S, n - 1) IN
       shorter \cup {Append(q, e) : q \in {r \in shorter : Len(r) = n - 1}, e \in S}

RECURSIVE Concat(_)
Concat(pieces) == IF pieces = <<>> THEN <<>> ELSE Head(pieces) \o Concat(Tail(pieces))

(***************************************************************************)
(* replaceRefs(value, options)                                             *)
(***************************************************************************)
MaxDepth == 2
MaxPieces == 3

RefValue(name) ==
  CASE name = <<"a">> -> <<"next">>
    [] name = <<"a", "b">> -> <<"prev">>
    [] OTHER -> <<"root", ".", "x">>
RefNames == {<<"a">>, <<"a", "b">>, <<"$", "c">>}
RefDefs == {Entry(name, RefDef(RefValue(name), depth)) : name \in RefNames, depth \in 0..MaxDepth}
RefMaps == {refs \in SeqsUpTo(RefDefs, 2) : Len(refs) = 2 => refs[1].key # refs[2].key}
RefPieces == {<<"^", "a">>, <<"^", "a", "b">>, <<"^", "$", "c">>, <<"(", "prev", ")">>,
              <<".", "foo">>, <<" ", "===", " ">>, <<"^">>, <<"(">>, <<")">>}
RefTexts == {Concat(pieces) : pieces \in SeqsUpTo(RefPieces, MaxPieces)}

InitRefs ==
  /\ registry = BuiltinRegistry
  /\ op = "replaceRefs" /\ pc = "call"
  /\ arg \in [value : RefTexts, options : {Options(<<>>, refs, NoParent) : refs \in RefMaps}]
  /\ ret = Nothing

ReplaceRefs ==
  /\ op = "replaceRefs" /\ pc = "call"
  /\ ret' = replaceRefs(arg.value, arg.options)
  /\ pc' = "done"
  /\ UNCHANGED <<registry, op, arg>>

SpecRefs == InitRefs /\ [][ReplaceRefs]_vars

\* The text with every `^NAME` and `^NAME(next|prev)` of an in-scope ref
\* replaced in one scan from left to right (the longest name where several match).
RECURSIVE C2_Replaced(_, _, _)
C2_Replaced(text, i, refs) ==
  IF i > Len(text) THEN <<>>
  ELSE LET ms == {r \in 1..Len(refs) : MatchesAt(text, i, refs[r].key)} IN
    IF ms = {} THEN <<text[i]>> \o C2_Replaced(text, i + 1, refs)
    ELSE LET r == CHOOSE r \in ms : \A q \in ms : Len(refs[q].key) <= Len(refs[r].key)
             j == i + Len(refs[r].key) + 1
             S == IF KeywordAt(text, j) THEN <<text[j + 1]>> ELSE refs[r].val.value
         IN S \o repeat(PARENT_CALL, refs[r].val.depth)
              \o C2_Replaced(text, IF KeywordAt(text, j) THEN j + 3 ELSE j, refs)

IsPrefix(p, q) == Len(p) <= Len(q) /\ SubSeq(q, 1, Len(p)) = p
C2_NoPrefix(refs) ==
  \A r, q \in 1..Len(refs) : r # q => ~IsPrefix(refs[r].key, refs[q].key)
\* no replacement can join the text around it into a new `^NAME` or
\* `^NAME(next|prev)`: no `^` follows a `^` after identifier characters only,
\* and no `^` follows the `(` that stands right after a `^NAME`
C2_Apart(text, refs) ==
  \A i \in 2..Len(text) : text[i] = "^" =>
    /\ ~\E j \in 1..(i - 1) : text[j] = "^" /\ \A m \in (j + 1)..(i - 1) : IsIdPart(text[m])
    /\ ~(text[i - 1] = "(" /\ \E r \in 1..Len(refs) :
           i - 2 - Len(refs[r].key) >= 1 /\ MatchesAt(text, i - 2 - Len(refs[r].key), refs[r].key))

\* C2 as stated: replaceRefs replaces every occurrence of ^NAME or
\* ^NAME(next|prev) of an in-scope ref by S and n copies of .parent().
C2_AsStated ==
  Done("replaceRefs") => ret = C2_Replaced(arg.value, 1, arg.options.refs)

\* C2 amended: when no in-scope ref name is a prefix of another and no
\* replacement can join its surroundings into a new occurrence, replaceRefs
\* replaces every occurrence of ^NAME or ^NAME(next|prev) of an in-scope ref
\* {value: V, depth: n} by S followed by exactly n copies of .parent(), S being
\* the override keyword when given and V otherwise, and leaves the rest unchanged.
C2_ReplaceRefs ==
  (Done("replaceRefs") /\ C2_NoPrefix(arg.options.refs) /\ C2_Apart(arg.value, arg.options.refs))
    => ret = C2_Replaced(arg.value, 1, arg.options.refs)

\* an override keyword on a ref of depth 2, and a second ref, both replaced
C2_Witness ==
  /\ Done("replaceRefs")
  /\ arg.value = <<"^", "a", "(", "prev", ")", "^", "$", "c">>
  /\ arg.options.refs = <<Entry(<<"a">>, RefDef(<<"next">>, 2)), Entry(<<"$", "c">>, RefDef(<<"root", ".", "x">>, 1))>>
  /\ ret = <<"prev">> \o PARENT_CALL \o PARENT_CALL \o <<"root", ".", "x">> \o PARENT_CALL

(***************************************************************************)
(* registerFunction(name, fn) and replaceFunctions(value, options)         *)
(***************************************************************************)
MaxArgs == 2

RECURSIVE Join(_, _)
Join(pieces, sep) ==
  IF pieces = <<>> THEN <<>>
  ELSE IF Len(pieces) = 1 THEN pieces[1]
  ELSE pieces[1] \o sep \o Join(Tail(pieces), sep)

\* the text of a call, and of a function declaration header
CallText(name, args) == name \o <<"(">> \o Join(args, <<",", " ">>) \o <<")">>
Declared(name, params, body) == Entry(CallText(name, params), FunctionDef(body, name, params))

FnParams == {<<>>, <<<<"a">>>>, <<<<"a">>, <<"b">>>>}
FooBodies == {<<"next", "===", "a", "&&", "prev", "==", "b">>,
              <<"auth", ".", "a", "===", "b", "[", "a", "]">>,
              <<"a", "===", "b">>,
              <<"g", "(", "a", ")">>}
FooDefs == {Declared(<<"foo">>, params, body) : params \in FnParams, body \in FooBodies}
GDefs == {Declared(<<"g">>, <<<<"a">>>>, <<"a", ".", "isString", "(", ")">>),
          Declared(<<"g">>, <<>>, <<"next", ".", "exists", "(", ")">>),
          Declared(<<"g">>, <<<<"a">>>>, <<"foo", "(", "a", ")">>)}
FnMaps == {<<>>} \cup {<<f>> : f \in FooDefs} \cup {<<f, g>> : f \in FooDefs, g \in GDefs}

ArgExprs == {<<"1">>, <<"b">>, <<"g", "(", ")">>, <<"1", "||", "b">>}
Callees == {<<"foo">>, <<"g">>, <<"doesNotExist">>}
Calls == {CallText(name, args) : name \in Callees, args \in SeqsUpTo(ArgExprs, MaxArgs)}
MethodCalls == {<<"next", ".", "hasChild", "(">> \o CallText(name, <<>>) \o <<")">> : name \in Callees}
NativeCalls == {<<"custom", "(", "'", "next", "'", ")">>,
                <<"oneOf", "(", "[", "'", "x", "'", "]", ",", "'", "g", "(", ")", "'", ")">>,
                <<"oneOf", "(", "[", "'", "x", "'", ",", "1", "]", ")">>,
                <<"oneOf", "(", ")">>}
FnValues == Calls \cup MethodCalls \cup NativeCalls

RegisteredNames == {<<"custom">>}
Callbacks == {"custom"}

InitFunctions ==
  /\ registry = BuiltinRegistry
  /\ op = "replaceFunctions" /\ pc = "call"
  /\ arg \in [value : FnValues, options : {Options(fns, <<>>, NoParent) : fns \in FnMaps}]
  /\ ret = Nothing

RegisterFunction ==
  /\ op = "replaceFunctions" /\ pc = "call"
  /\ \E name \in RegisteredNames, fn \in Callbacks :
       /\ registry # registerFunction(registry, name, fn)
       /\ registry' = registerFunction(registry, name, fn)
  /\ UNCHANGED <<op, pc, arg, ret>>

ReplaceFunctions ==
  /\ op = "replaceFunctions" /\ pc = "call"
  /\ ret' = replaceFunctions(arg.value, arg.options, registry)
  /\ pc' = "done"
  /\ UNCHANGED <<registry, op, arg>>

NextFunctions == RegisterFunction \/ ReplaceFunctions
SpecFunctions == InitFunctions /\ [][NextFunctions]_vars

\* the names that stand as the bare-identifier callee of a call in a tree
RECURSIVE BareCallees(_)
BareCallees(n) ==
  (IF n.t = "CallExpression" /\ callee(n).t = "Identifier" THEN {callee(n).v} ELSE {})
    \cup UNION {BareCallees(n.k[i]) : i \in 1..Len(n.k)}
BareCalleesOf(text) ==
  LET syntax == parseExpression(text) IN IF IsThrown(syntax) THEN {} ELSE BareCallees(syntax)

DeclaredNames(fns) == {fns[i].val.name : i \in 1..Len(fns)}

\* C6: the body with every identifier that is a parameter (and not the key
\* of a static property access) replaced by the argument at the position of
\* the parameter, when there is one
RECURSIVE C6_Substituted(_, _, _)
C6_Substituted(n, params, args) ==
  IF n.t = "Identifier" THEN
    IF \E i \in 1..Len(params) : params[i] = n.v /\ i <= Len(args)
    THEN args[CHOOSE i \in 1..Len(params) : params[i] = n.v]
    ELSE n
  ELSE IF n.t = "MemberExpression" /\ ~computed(n) THEN
    [n EXCEPT !.k = <<C6_Substituted(n.k[1], params, args), n.k[2]>>]
  ELSE [n EXCEPT !.k = [i \in 1..Len(n.k) |-> C6_Substituted(n.k[i], params, args)]]

\* the call under way is a call of a declared function, and neither its
\* arguments nor the body of the function call a function by name
C6_PlainCall ==
  LET syntax == parseExpression(arg.value)
      fns == arg.options.functions
  IN /\ syntax.t = "CallExpression"
     /\ NameOf(callee(syntax)) \in DeclaredNames(fns)
     /\ \A i \in 1..Len(arguments(syntax)) : BareCallees(arguments(syntax)[i]) = {}
     /\ BareCalleesOf(findFn(fns, NameOf(callee(syntax))).body) = {}

\* C6: inlining a call of a declared function substitutes by position: the
\* result is the body of the function with every identifier equal to the i-th
\* parameter replaced by the i-th argument of the call; a parameter for which
\* the call gives no argument stays as it is, and no error is raised.
C6_ByPosition ==
  (Done("replaceFunctions") /\ C6_PlainCall) =>
    LET syntax == parseExpression(arg.value)
        fn == findFn(arg.options.functions, NameOf(callee(syntax)))
    IN /\ ~ret.threw
       /\ ret.code = stringifySyntax(C6_Substituted(parseExpression(fn.body), fn.args, arguments(syntax)))

\* foo(a, b) called with one argument: a is replaced, b is left
C6_Witness ==
  /\ Done("replaceFunctions")
  /\ arg.value = <<"foo", "(", "1", "||", "b", ")">>
  /\ arg.options.functions =
       <<Declared(<<"foo">>, <<<<"a">>, <<"b">>>>, <<"next", "===", "a", "&&", "prev", "==", "b">>)>>
  /\ ~ret.threw
  /\ ret.code = <<"next", " ", "===", " ", "(", "1", " ", "||", " ", "b", ")", " ", "&&", " ",
                  "prev", " ", "==", " ", "b">>

\* the function called by the plain call under way, and the argument it
\* gets for its i-th parameter: the parameter itself when the call has none
C27_Fn == findFn(arg.options.functions, NameOf(callee(parseExpression(arg.value))))
C27_Argument(i) ==
  IF i <= Len(C27_Fn.args) /\ i <= Len(arguments(parseExpression(arg.value)))
  THEN arguments(parseExpression(arg.value))[i]
  ELSE Identifier(<<<<"a">>, <<"b">>>>[i])
C27_Body == <<"auth", ".", "a", "===", "b", "[", "a", "]">>

\* C27: in the body auth.a === b[a] the parameter a is replaced where it is
\* a computed index and is kept where it is the key of the static access
\* auth.a (and the parameter b, an identifier, is replaced).
C27_KeyOfStaticAccessKept ==
  (Done("replaceFunctions") /\ C6_PlainCall /\ C27_Fn.body = C27_Body) =>
    /\ ~ret.threw
    /\ ret.code = stringifySyntax(
         BinaryExpression("===",
                          MemberExpression(FALSE, Identifier(<<"auth">>), Identifier(<<"a">>)),
                          MemberExpression(TRUE, C27_Argument(2), C27_Argument(1))))

\* foo(a) called with b: the index becomes b, the key stays a
C27_Witness ==
  /\ Done("replaceFunctions") /\ ~ret.threw
  /\ arg.value = <<"foo", "(", "b", ")">>
  /\ arg.options.functions = <<Declared(<<"foo">>, <<<<"a">>>>, C27_Body)>>
  /\ ret.code = <<"auth", ".", "a", " ", "===", " ", "b", "[", "b", "]">>

\* C30: the arguments are substituted at once: for foo(a, b) with the body
\* a === b, the result is the first argument compared with the second,
\* whatever parameter names the arguments hold.
C30_Simultaneous ==
  (Done("replaceFunctions") /\ C6_PlainCall /\ C27_Fn.body = <<"a", "===", "b">>
     /\ C27_Fn.args = <<<<"a">>, <<"b">>>>) =>
    /\ ~ret.threw
    /\ ret.code = stringifySyntax(BinaryExpression("===", C27_Argument(1), C27_Argument(2)))

\* foo(b, 1): the b that came in for a is not replaced by 1
C30_Witness ==
  /\ Done("replaceFunctions") /\ ~ret.threw
  /\ arg.value = <<"foo", "(", "b", ",", " ", "1", ")">>
  /\ arg.options.functions = <<Declared(<<"foo">>, <<<<"a">>, <<"b">>>>, <<"a", "===", "b">>)>>
  /\ ret.code = <<"b", " ", "===", " ", "1">>

\* no function calls itself, directly or through other functions
RECURSIVE C7_Reaches(_, _, _)
C7_Reaches(fns, names, n) ==
  IF n = 0 THEN names
  ELSE C7_Reaches(fns,
                  names \cup UNION {BareCalleesOf(fns[i].val.body) : i \in {j \in 1..Len(fns) : fns[j].val.name \in names}},
                  n - 1)
C7_NonRecursive(fns) ==
  \A i \in 1..Len(fns) :
    fns[i].val.name \notin C7_Reaches(fns, BareCalleesOf(fns[i].val.body), Len(fns))

\* C7: for a non-recursive set of declared functions, the output of
\* replaceFunctions has no call whose callee is a bare identifier naming a
\* declared function.
C7_NoResidualCall ==
  (Done("replaceFunctions") /\ ~ret.threw /\ C7_NonRecursive(arg.options.functions)) =>
    BareCalleesOf(ret.code) \cap DeclaredNames(arg.options.functions) = {}

\* C8: replaceFunctions fails whenever the expression has a call whose
\* bare-identifier callee is neither declared nor registered; it never
\* returns such a call.
C8_UndefinedFails ==
  Done("replaceFunctions") =>
    ((\E name \in BareCalleesOf(arg.value) :
        name \notin DeclaredNames(arg.options.functions) /\ ~HasKey(registry, name))
      => ret.threw)

\* the declared functions the value reaches that reach themselves
C18_Recursive(fns, value) ==
  {name \in C7_Reaches(fns, BareCalleesOf(value), Len(fns)) \cap DeclaredNames(fns) :
     \E i \in 1..Len(fns) :
       fns[i].val.name = name /\ name \in C7_Reaches(fns, BareCalleesOf(fns[i].val.body), Len(fns))}

\* C18: when the expression reaches a declared function that calls itself,
\* directly or through other functions, replaceFunctions fails with an
\* error of its own, and not by running out of call stack.
C18_RecursionDetected ==
  (Done("replaceFunctions") /\ C18_Recursive(arg.options.functions, arg.value) # {}) =>
    ret.threw /\ ret.error # "RangeError"

\* the expression is a call of a registered function that is not declared
C21_Native ==
  LET syntax == parseExpression(arg.value) IN
  /\ syntax.t = "CallExpression"
  /\ callee(syntax).t = "Identifier"
  /\ callee(syntax).v \notin DeclaredNames(arg.options.functions)
  /\ HasKey(registry, callee(syntax).v)

\* C21: when the expression is a call of a registered function, the
\* fragment its callback returns is inlined too: the output has no call of
\* a declared function (the declared functions not being recursive).
C21_FragmentInlined ==
  (Done("replaceFunctions") /\ ~ret.threw /\ C21_Native /\ C7_NonRecursive(arg.options.functions)) =>
    BareCalleesOf(ret.code) \cap DeclaredNames(arg.options.functions) = {}

\* a fragment that calls no declared function is returned as the callback
\* wrote it
C21_ButPlainFragment ==
  (Done("replaceFunctions") /\ ~ret.threw /\ C21_Native) =>
    LET syntax == parseExpression(arg.value)
        args == [i \in 1..Len(arguments(syntax)) |-> eval(arguments(syntax)[i])]
    IN ret.code = stringifySyntax(parseExpression(Callback(Get(registry, callee(syntax).v), args)))

(***************************************************************************)
(* coerceVal(value), and coerceVal on its own result                       *)
(***************************************************************************)
MaxChain == 3

CoerceRoots == {<<"next">>, <<"root">>, <<"x">>}
CoerceSteps == {<<".", "foo">>, <<".", "val", "(", ")">>, <<"[", "prev", "]">>,
                <<"(", "next", ")">>, <<".", "exists", "(", ")">>}
CoerceChains == {root \o Concat(steps) : root \in CoerceRoots, steps \in SeqsUpTo(CoerceSteps, MaxChain)}
CoerceTexts ==
  CoerceChains
    \cup {<<"!">> \o c : c \in CoerceChains}
    \cup {c \o <<"===", "prev", ".", "bar">> : c \in CoerceChains}
    \cup {<<"x", "(">> \o c \o <<")">> : c \in CoerceChains}

InitCoerce ==
  /\ registry = BuiltinRegistry
  /\ op = "coerceVal" /\ pc = "call"
  /\ arg \in [value : CoerceTexts]
  /\ ret = Nothing

CoerceVal ==
  /\ op = "coerceVal" /\ pc = "call"
  /\ ret' = coerceVal(arg.value)
  /\ pc' = "done"
  /\ UNCHANGED <<registry, op, arg>>

\* coerceVal called with the code a first call returned
CoerceAgain ==
  /\ op = "coerceVal" /\ pc = "done"
  /\ ~ret.threw
  /\ arg' = [value |-> ret.code, original |-> arg.value]
  /\ ret' = coerceVal(ret.code)
  /\ pc' = "again"
  /\ UNCHANGED <<registry, op>>

NextCoerce == CoerceVal \/ CoerceAgain
SpecCoerce == InitCoerce /\ [][NextCoerce]_vars

\* C10: coerceVal is idempotent: called with the code that a successful
\* call returned, it succeeds and returns that same code.
C10_Idempotent ==
  (op = "coerceVal" /\ pc = "again") => (~ret.threw /\ ret.code = arg.value)

\* both operands of a comparison were coerced by the first call, and the
\* second call left them alone
C10_Witness ==
  /\ op = "coerceVal" /\ pc = "again"
  /\ arg.original = <<"next", ".", "foo", "===", "prev", ".", "bar">>
  /\ arg.value = <<"next", ".", "foo", ".", "val", "(", ")", " ", "===", " ",
                   "prev", ".", "bar", ".", "val", "(", ")">>
  /\ ret.code = arg.value

\* the identifier at the root of a chain of accesses and calls
RECURSIVE C11_Root(_)
C11_Root(n) ==
  CASE n.t = "Identifier" -> n.v
    [] n.t = "MemberExpression" -> C11_Root(object(n))
    [] n.t = "CallExpression" -> C11_Root(callee(n))
    [] OTHER -> Undefined
C11_SnapshotRooted(n) == C11_Root(n) \in {<<"next">>, <<"prev">>, <<"root">>}
\* the expression contains a call of a method named val
RECURSIVE C11_HasVal(_)
C11_HasVal(n) ==
  \/ n.t = "CallExpression" /\ callee(n).t = "MemberExpression" /\ ~computed(callee(n))
       /\ property(callee(n)) = VAL
  \/ \E i \in 1..Len(n.k) : C11_HasVal(n.k[i])
\* the expression without its index expressions and call arguments
C11_Hole == Identifier(<<>>)
RECURSIVE C11_Skeleton(_)
C11_Skeleton(n) ==
  CASE n.t = "MemberExpression" /\ computed(n) -> [n EXCEPT !.k = <<C11_Skeleton(object(n)), C11_Hole>>]
    [] n.t = "CallExpression" ->
         [n EXCEPT !.k = <<C11_Skeleton(callee(n))>> \o [i \in 1..Len(arguments(n)) |-> C11_Hole]]
    [] OTHER -> [n EXCEPT !.k = [i \in 1..Len(n.k) |-> C11_Skeleton(n.k[i])]]
\* .val() on every operand that is a snapshot-rooted identifier or member
\* chain without a .val() call; a call keeps its callee
RECURSIVE C11_Expected(_)
C11_Expected(n) ==
  IF n.t \in {"Identifier", "MemberExpression"} THEN
    IF C11_SnapshotRooted(n) /\ ~C11_HasVal(n) THEN CallExpression(MemberExpression(FALSE, n, VAL), <<>>)
    ELSE n
  ELSE IF n.t \in {"UnaryExpression", "BinaryExpression", "LogicalExpression"} THEN
    [n EXCEPT !.k = [i \in 1..Len(n.k) |-> C11_Expected(n.k[i])]]
  ELSE n

RECURSIVE C19_Expected(_), C19_Inner(_)
C19_Expected(n) ==
  CASE n.t = "Identifier" ->
         IF C11_SnapshotRooted(n) THEN CallExpression(MemberExpression(FALSE, n, VAL), <<>>) ELSE n
    [] n.t = "MemberExpression" ->
         IF C11_SnapshotRooted(n) THEN CallExpression(MemberExpression(FALSE, C19_Inner(n), VAL), <<>>)
         ELSE C19_Inner(n)
    [] n.t = "CallExpression" -> C19_Inner(n)
    [] OTHER -> [n EXCEPT !.k = [i \in 1..Len(n.k) |-> C19_Expected(n.k[i])]]
\* the chain itself is kept, its index expressions and arguments are coerced
C19_Inner(n) ==
  CASE n.t = "Identifier" -> n
    [] n.t = "MemberExpression" ->
         [n EXCEPT !.k = <<C19_Inner(object(n)),
                           IF computed(n) THEN C19_Expected(property(n)) ELSE property(n)>>]
    [] n.t = "CallExpression" ->
         [n EXCEPT !.k = <<C19_Inner(callee(n))>> \o
                         [i \in 1..Len(arguments(n)) |-> C19_Expected(arguments(n)[i])]]
    [] OTHER -> C19_Expected(n)

\* C19: in an expression that holds no .val() call, coerceVal appends .val()
\* to a snapshot reference used as a computed index or as a call argument,
\* also when the index or the call sits inside a snapshot-rooted chain, and
\* leaves what is not rooted at a snapshot identifier unchanged.
C19_RecursesIntoIndex ==
  (Done("coerceVal") /\ ~ret.threw /\ ~C11_HasVal(parseExpression(arg.value))) =>
    parseExpression(ret.code) = C19_Expected(parseExpression(arg.value))

\* what the code does for an argument of a call that is no part of a chain
C19_ButPlainArgument ==
  (Done("coerceVal") /\ \E c \in CoerceRoots : arg.value = <<"x", "(">> \o c \o <<")">>) =>
    /\ ~ret.threw
    /\ parseExpression(ret.code) = C19_Expected(parseExpression(arg.value))

(***************************************************************************)
(* getOptions(rules, options), and getOptions for a child ruleset with     *)
(* the options a first call returned                                       *)
(***************************************************************************)
MaxDescents == 1

FnBody == <<"auth", "!==", "null">>
FnKeys == {<<"foo", "(", ")">>, <<"foo", "(", "a", ",", "b", ")">>, <<"foo", "(", "a", ",">>,
           <<"1", "===", "2">>, <<"foo", "(", "a", ".", "b", ")">>, <<"a", ".", "b", "(", "x", ")">>}
FnDeclMaps ==
  {<<>>} \cup {<<Entry(key, Str(FnBody))>> : key \in FnKeys}
    \cup {<<Entry(key, Str(FnBody)), Entry(<<"g", "(", "a", ")">>, Str(<<"a", ".", "isString", "(", ")">>))>> :
            key \in FnKeys}
    \cup {<<Entry(<<"1", "===", "2">>, Str(FnBody)), Entry(<<"foo", "(", "a", ",">>, Str(FnBody))>>,
          <<Entry(<<"foo", "(", "a", ",">>, Str(FnBody)), Entry(<<"1", "===", "2">>, Str(FnBody))>>}
RefDeclMaps == {<<>>, <<Entry(<<"r">>, Str(<<"next">>))>>}
ChildKeys == {<<"$", "g">>, <<"users">>}

\* a ruleset node: its declarations, and one child ruleset
Ruleset(fns, refs, key) ==
  (IF fns = <<>> THEN <<>> ELSE <<Entry(FUNCTIONS, Obj(fns))>>)
    \o (IF refs = <<>> THEN <<>> ELSE <<Entry(REFS, Obj(refs))>>)
    \o <<Entry(key, Obj(<<>>))>>
OptionRules == {Ruleset(fns, refs, key) : fns \in FnDeclMaps, refs \in RefDeclMaps, key \in ChildKeys}

InitOptions ==
  /\ registry = BuiltinRegistry
  /\ op = "getOptions" /\ pc = "call"
  /\ arg \in [rules : OptionRules, options : {EmptyOptions}, level : {0}]
  /\ ret = Nothing

GetOptions ==
  /\ op = "getOptions" /\ pc = "call"
  /\ ret' = getOptions(arg.rules, arg.options)
  /\ pc' = "done"
  /\ UNCHANGED <<registry, op, arg>>

\* parse(rule, options): the options returned are those of the parent
Descend ==
  /\ op = "getOptions" /\ pc = "done"
  /\ ~ret.threw
  /\ arg.level < MaxDescents
  /\ \E rules \in OptionRules :
       arg' = [rules |-> rules, options |-> ret.options, level |-> arg.level + 1]
  /\ ret' = Nothing
  /\ pc' = "call"
  /\ UNCHANGED <<registry, op>>

NextOptions == GetOptions \/ Descend
SpecOptions == InitOptions /\ [][NextOptions]_vars

\* the key has the form identifier(identifier, ...)
C9_WellFormed(key) ==
  LET toks == Lex(key, 1)
      n == Len(toks)
  IN /\ n >= 3
     /\ toks[1].tk = "id" /\ IsP(toks[2], "(") /\ IsP(toks[n], ")")
     /\ \A i \in 3..(n - 1) : IF i % 2 = 1 THEN toks[i].tk = "id" ELSE IsP(toks[i], ",")
     /\ (n > 3 => n % 2 = 0)
\* the parameters of a well-formed key, in declaration order
C9_Params(key) ==
  LET toks == Lex(key, 1)
      ids == {i \in 3..(Len(toks) - 1) : toks[i].tk = "id"}
  IN [j \in 1..Cardinality(ids) |-> toks[2 * j + 1].v]

\* C9: getOptions fails with an error naming the offending key for every
\* `.functions` key that is not of the form identifier(identifier, ...), and
\* for every well-formed key it produces {name, args in declaration order, body}.
C9_InvalidDeclarations ==
  Done("getOptions") =>
    LET decls == merge(merge(<<>>, arg.options.functions), FnDecls(arg.rules))
        bad == {i \in 1..Len(decls) : ~C9_WellFormed(decls[i].key)}
    IN IF bad # {}
       THEN ret.threw /\ ret.error \in {decls[i].key : i \in bad}
       ELSE /\ ~ret.threw
            /\ KeysOf(ret.options.functions) = KeysOf(decls)
            /\ \A i \in 1..Len(decls) :
                 ret.options.functions[i].val =
                   FunctionDef(decls[i].val.body, Lex(decls[i].key, 1)[1].v, C9_Params(decls[i].key))

(***************************************************************************)
(* parse(rules)                                                            *)
(***************************************************************************)
MaxNest == 2

WRITE == <<".write">>
READ == <<".read">>
LeafTexts == {<<"^", "r", ".", "x">>,
              <<"^", "$", "g", ".", "x">>,
              <<"foo", "(", ")">>,
              <<"foo", "(", "^", "r", ")">>,
              <<"next", ".", "x", "===", "auth", ".", "uid">>}
NodeDecls == {<<>>,
              <<Entry(REFS, Obj(<<Entry(<<"r">>, Str(<<"next">>))>>))>>,
              <<Entry(FUNCTIONS, Obj(<<Entry(<<"foo", "(", ")">>, Str(<<"auth", "!==", "null">>))>>))>>,
              <<Entry(FUNCTIONS, Obj(<<Entry(<<"foo", "(", "a", ")">>, Str(<<"a", "===", "1">>))>>))>>}
\* a child ruleset of the root that stands before the other child
Sibling == <<Entry(<<"s">>, Obj(<<Entry(PARENT, Obj(<<>>)),
                                 Entry(READ, Str(<<"next", ".", "exists", "(", ")">>))>>))>>

\* a tree of rulesets n deep: at each level the declarations of the ruleset,
\* the sibling (at the root) and the key of the next ruleset; the last
\* ruleset holds the rule
RECURSIVE Nested(_, _, _, _, _)
Nested(levels, n, i, last, leaf) ==
  IF i > n THEN last \o <<Entry(WRITE, Str(leaf))>>
  ELSE levels[i][1] \o (IF i = 1 THEN Sibling ELSE <<>>)
         \o <<Entry(levels[i][2], Obj(Nested(levels, n, i + 1, last, leaf)))>>

InitParse ==
  /\ registry = BuiltinRegistry
  /\ op = "parse" /\ pc = "call"
  /\ \E n \in 0..MaxNest :
       \E levels \in [1..n -> NodeDecls \X ChildKeys], last \in NodeDecls, leaf \in LeafTexts :
         arg = [rules |-> Nested(levels, n, 1, last, leaf)]
  /\ ret = Nothing

Parse ==
  /\ op = "parse" /\ pc = "call"
  /\ ret' = parse(arg.rules, EmptyOptions, registry)
  /\ pc' = "done"
  /\ UNCHANGED <<registry, op, arg>>

SpecParse == InitParse /\ [][Parse]_vars

\* the entries of the ruleset at a path of keys, and the value at a path
RECURSIVE NodeAt(_, _)
NodeAt(rules, path) ==
  IF path = <<>> THEN rules ELSE NodeAt(Get(rules, Head(path)).ents, Tail(path))
ValueAt(rules, path) == Get(NodeAt(rules, SubSeq(path, 1, Len(path) - 1)), path[Len(path)])
HasValueAt(rules, path) ==
  /\ \A i \in 1..Len(path) :
       LET above == IF i = 1 THEN Obj(rules) ELSE ValueAt(rules, SubSeq(path, 1, i - 1))
       IN above.kind = "object" /\ HasKey(above.ents, path[i])

IsSpecial(key) == Includes(SPECIAL_KEYS, key)

\* the paths of the string leaves of a rule tree (declarations are not rules)
RECURSIVE LeafPaths(_)
LeafPaths(rules) ==
  UNION {LET e == rules[i] IN
         IF IsSpecial(e.key) THEN {}
         ELSE IF e.val.kind = "string" THEN {<<e.key>>}
         ELSE IF e.val.kind = "object" THEN {<<e.key>> \o q : q \in LeafPaths(e.val.ents)}
         ELSE {} : i \in 1..Len(rules)}
\* the path of the ruleset that holds a leaf
Holder(leaf) == SubSeq(leaf, 1, Len(leaf) - 1)

\* the options in force at the ruleset at a path: getOptions at each ruleset
\* on the way, each with the options of the one above
RECURSIVE OptionsAt(_, _, _)
OptionsAt(rules, path, options) ==
  LET o == getOptions(rules, options) IN
  IF path = <<>> THEN o.options
  ELSE OptionsAt(Get(o.rules, Head(path)).ents, Tail(path), o.options)

RECURSIVE HasSpecialKey(_)
HasSpecialKey(rules) ==
  \E i \in 1..Len(rules) :
    \/ IsSpecial(rules[i].key)
    \/ rules[i].val.kind = "object" /\ HasSpecialKey(rules[i].val.ents)

\* the ruleset i levels down the path declares the ref in its .refs
C1_Declares(rules, path, i, name) == HasKey(RefDecls(NodeAt(rules, SubSeq(path, 1, i))), name)
\* the ruleset i levels down the path stands beside (or under) the $wildcard key
C1_Injected(rules, path, i, name) ==
  i >= 1 /\ IsWildcard(name) /\ HasKey(RemoveSpecial(NodeAt(rules, SubSeq(path, 1, i - 1))), name)
\* the levels at which the ref enters scope with depth 0
C1_Entries(rules, path, name) ==
  {i \in 0..Len(path) : C1_Declares(rules, path, i, name) \/ C1_Injected(rules, path, i, name)}
C1_Entered(rules, path, name) ==
  CHOOSE i \in C1_Entries(rules, path, name) : \A j \in C1_Entries(rules, path, name) : j <= i
C1_Value(rules, path, name) ==
  LET i == C1_Entered(rules, path, name) IN
  IF C1_Injected(rules, path, i, name) THEN <<"prev">>
  ELSE Get(RefDecls(NodeAt(rules, SubSeq(path, 1, i))), name).value
\* the names of the refs of a tree
RECURSIVE C1_Names(_)
C1_Names(rules) ==
  UNION {LET e == rules[i] IN
         (IF e.key = REFS /\ e.val.kind = "object" THEN {e.val.ents[j].key : j \in 1..Len(e.val.ents)} ELSE {})
           \cup (IF IsWildcard(e.key) THEN {e.key} ELSE {})
           \cup (IF ~IsSpecial(e.key) /\ e.val.kind = "object" THEN C1_Names(e.val.ents) ELSE {})
         : i \in 1..Len(rules)}
\* the leaf is ^NAME followed by a text that is no part of the reference
C1_Uses(text, name) ==
  /\ MatchesAt(text, 1, name)
  /\ Len(text) > Len(name) + 1
  /\ text[Len(name) + 2] = "."
  /\ \A i \in 2..Len(text) : text[i] # "^"

\* C1: in a string leaf on a ruleset k levels below the ruleset at which a
\* ref (declared in .refs, or implicit for a $wildcard key) entered scope with
\* depth 0, ^NAME expands to the value of the ref followed by exactly k
\* .parent() steps, whatever sibling rulesets were compiled before.
C1_DepthIsDistance ==
  (Done("parse") /\ ~ret.threw) =>
    \A leaf \in LeafPaths(arg.rules) : \A name \in C1_Names(arg.rules) :
      LET text == ValueAt(arg.rules, leaf).text
          path == Holder(leaf)
      IN (C1_Uses(text, name) /\ C1_Entries(arg.rules, path, name) # {}) =>
           LET k == Len(path) - C1_Entered(arg.rules, path, name)
               expanded == C1_Value(arg.rules, path, name) \o repeat(PARENT_CALL, k)
                             \o SubSeq(text, Len(name) + 2, Len(text))
           IN ValueAt(ret.rules, leaf) = Str(compile(expanded, EmptyOptions, registry).code)

\* a ref declared at the root and used two levels below, after a sibling
\* ruleset of the root was compiled
C1_Witness ==
  /\ Done("parse") /\ ~ret.threw
  /\ HasValueAt(arg.rules, <<<<"users">>, <<"users">>, WRITE>>)
  /\ HasKey(arg.rules, <<"s">>)
  /\ C1_Entries(arg.rules, <<<<"users">>, <<"users">>>>, <<"r">>) = {0}
  /\ ValueAt(arg.rules, <<<<"users">>, <<"users">>, WRITE>>) = Str(<<"^", "r", ".", "x">>)
  /\ ValueAt(ret.rules, <<<<"users">>, <<"users">>, WRITE>>)
       = Str(<<"newData", ".", "parent", "(", ")", ".", "parent", "(", ")", ".",
               "child", "(", "'", "x", "'", ")", ".", "val", "(", ")">>)

\* C3: after parse returns, no ruleset of the tree has a .functions, .refs
\* or .parent key, and every string leaf of the original tree holds the result
\* of the compilation passes on it.
C3_NoSpecialKeysLeft ==
  (Done("parse") /\ ~ret.threw) =>
    /\ ~HasSpecialKey(ret.rules)
    /\ \A leaf \in LeafPaths(arg.rules) :
         /\ HasValueAt(ret.rules, leaf)
         /\ ValueAt(ret.rules, leaf) =
              Str(compile(ValueAt(arg.rules, leaf).text,
                          OptionsAt(arg.rules, Holder(leaf), EmptyOptions), registry).code)

\* all three special keys were in the tree, and two leaves were compiled
C3_Witness ==
  /\ Done("parse") /\ ~ret.threw
  /\ \E i \in 1..Len(arg.rules) : arg.rules[i].key = REFS
  /\ HasValueAt(arg.rules, <<<<"s">>, PARENT>>)
  /\ HasValueAt(arg.rules, <<<<"$", "g">>, FUNCTIONS>>)
  /\ ValueAt(arg.rules, <<<<"$", "g">>, WRITE>>) = Str(<<"foo", "(", "^", "r", ")">>)
  /\ ValueAt(ret.rules, <<<<"$", "g">>, WRITE>>) = Str(<<"newData", ".", "parent", "(", ")", " ", "===", " ", "1">>)
  /\ ValueAt(ret.rules, <<<<"s">>, READ>>) = Str(<<"newData", ".", "exists", "(", ")">>)
  /\ ~HasSpecialKey(ret.rules)

\* C4: for every string leaf, parse runs reference expansion, function
\* inlining, value coercion, child-syntax desugaring and identifier renaming
\* in this order, each on the output of the one before, and stores the last
\* output under the key of the leaf.
C4_PassOrder ==
  (Done("parse") /\ ~ret.threw) =>
    \A leaf \in LeafPaths(arg.rules) :
      LET options == OptionsAt(arg.rules, Holder(leaf), EmptyOptions)
          expanded == replaceRefs(ValueAt(arg.rules, leaf).text, options)
          inlined == replaceFunctions(expanded, options, registry)
          coerced == coerceVal(inlined.code)
          desugared == replaceChildSyntax(coerced.code)
          renamed == replaceFirebaseIdentifiers(desugared.code)
      IN /\ ~inlined.threw /\ ~coerced.threw /\ ~desugared.threw /\ ~renamed.threw
         /\ KeysOf(NodeAt(ret.rules, Holder(leaf))) = KeysOf(RemoveSpecial(NodeAt(arg.rules, Holder(leaf))))
         /\ ValueAt(ret.rules, leaf) = Str(renamed.code)

\* a leaf on which every pass acts: the ref is expanded before it is parsed,
\* .val() is appended before the property becomes a child() call, and next
\* is renamed last
C4_Witness ==
  /\ Done("parse") /\ ~ret.threw
  /\ arg.rules = <<Entry(REFS, Obj(<<Entry(<<"r">>, Str(<<"next">>))>>))>> \o Sibling \o
                  <<Entry(<<"users">>, Obj(<<Entry(FUNCTIONS, Obj(<<Entry(<<"foo", "(", "a", ")">>, Str(<<"a", "===", "1">>))>>)),
                                            Entry(WRITE, Str(<<"^", "r", ".", "x">>))>>))>>
  /\ ret.rules = <<Entry(<<"s">>, Obj(<<Entry(READ, Str(<<"newData", ".", "exists", "(", ")">>))>>)),
                   Entry(<<"users">>, Obj(<<Entry(WRITE, Str(<<"newData", ".", "parent", "(", ")", ".",
                     "child", "(", "'", "x", "'", ")", ".", "val", "(", ")">>))>>))>>

\* the rulesets on the path that declare a function of this name
C5_Declaring(rules, path, name) ==
  {i \in 0..Len(path) :
     \E j \in 1..Len(FnDecls(NodeAt(rules, SubSeq(path, 1, i)))) :
       LET key == FnDecls(NodeAt(rules, SubSeq(path, 1, i)))[j].key
       IN C9_WellFormed(key) /\ Lex(key, 1)[1].v = name}

\* C5: a function declared in .functions at a ruleset is in scope for the
\* leaves of that ruleset and of the rulesets below it: a leaf f() that calls
\* a declared function with no parameters compiles to what the body of that
\* function (the nearest declaration of f above the leaf) compiles to.
C5_DeclaredInScope ==
  (Done("parse") /\ ~ret.threw) =>
    \A leaf \in LeafPaths(arg.rules) :
      LET text == ValueAt(arg.rules, leaf).text
          path == Holder(leaf)
          name == Lex(text, 1)[1].v
      IN (C9_WellFormed(text) /\ C9_Params(text) = <<>> /\ C5_Declaring(arg.rules, path, name) # {}) =>
           LET i == CHOOSE i \in C5_Declaring(arg.rules, path, name) :
                      \A j \in C5_Declaring(arg.rules, path, name) : j <= i
               decls == FnDecls(NodeAt(arg.rules, SubSeq(path, 1, i)))
           IN HasKey(decls, text) =>
                ValueAt(ret.rules, leaf) =
                  Str(compile(Get(decls, text).body, OptionsAt(arg.rules, path, EmptyOptions), registry).code)

(***************************************************************************)
(* replaceChildSyntax(value)                                               *)
(***************************************************************************)
MaxSteps == 3

AUTH == <<"auth">>
ChildRoots == {<<"next">>, AUTH, <<"$", "p">>}
\* a property, a string index, an identifier index, a method call
SimpleSteps == {<<".", "foo">>, <<"[", "'", "bar", "'", "]">>, <<"[", "$", "k", "]">>,
                <<".", "m", "(", ")">>}
\* an index that is a member chain or a call, and a member chain in an argument
NestedSteps == {<<"[", "next", ".", "foo", "]">>, <<"[", "next", ".", "val", "(", ")", "]">>,
                <<".", "hasChild", "(", "next", ".", "foo", ".", "val", "(", ")", ")">>}
ChildSteps == SimpleSteps \cup NestedSteps
ChildWraps == {"none", "compare"}
UID == <<"auth", ".", "uid">>
ChildText(root, steps, wrap) ==
  root \o Concat(steps) \o (IF wrap = "compare" THEN <<"===">> \o UID ELSE <<>>)

InitChild ==
  /\ registry = BuiltinRegistry
  /\ op = "replaceChildSyntax" /\ pc = "call"
  /\ \E n \in 0..MaxSteps :
       \E steps \in [1..n -> ChildSteps], root \in ChildRoots, wrap \in ChildWraps :
         arg = [value |-> ChildText(root, steps, wrap), root |-> root, steps |-> steps, wrap |-> wrap]
  /\ ret = Nothing

ReplaceChildSyntax ==
  /\ op = "replaceChildSyntax" /\ pc = "call"
  /\ ret' = replaceChildSyntax(arg.value)
  /\ pc' = "done"
  /\ UNCHANGED <<registry, op, arg>>

SpecChild == InitChild /\ [][ReplaceChildSyntax]_vars

\* what a step of a chain is rewritten to: .b to .child('b'), [k] to
\* .child(k) with the index as it is written; a method call stays
C12_Step(step) ==
  IF step[1] = "[" THEN <<".", "child", "(">> \o SubSeq(step, 2, Len(step) - 1) \o <<")">>
  ELSE IF Len(step) = 2 THEN <<".", "child", "(", "'", step[2], "'", ")">>
  ELSE step
C12_Chain(root, steps) ==
  IF root = AUTH THEN root \o Concat(steps)
  ELSE root \o Concat([i \in 1..Len(steps) |-> C12_Step(steps[i])])
C12_Compared(code, wrap) == code \o (IF wrap = "compare" THEN <<" ", "===", " ">> \o UID ELSE <<>>)

CallIndex == <<"[", "next", ".", "val", "(", ")", "]">>
\* what a step is rewritten to when its index or argument is desugared too
C20_Step(step) ==
  IF step = <<"[", "next", ".", "foo", "]">>
    THEN <<".", "child", "(", "next", ".", "child", "(", "'", "foo", "'", ")", ")">>
  ELSE IF step = CallIndex
    THEN <<".", "child", "(", "next", ".", "val", "(", ")", ")">>
  ELSE IF step = <<".", "hasChild", "(", "next", ".", "foo", ".", "val", "(", ")", ")">>
    THEN <<".", "hasChild", "(", "next", ".", "child", "(", "'", "foo", "'", ")", ".", "val", "(", ")", ")">>
  ELSE C12_Step(step)
C20_Chain(root, steps) == root \o Concat([i \in 1..Len(steps) |-> C20_Step(steps[i])])

\* C20: replaceChildSyntax desugars the index of a computed access that is
\* a member chain or a call expression and uses it as the child() argument,
\* and desugars the member chains inside call arguments (chains rooted at
\* auth set aside).
C20_RecursesIntoIndex ==
  (Done("replaceChildSyntax") /\ arg.root # AUTH) =>
    /\ ~ret.threw
    /\ ret.code = C12_Compared(C20_Chain(arg.root, arg.steps), arg.wrap)

\* what the code does when no index is a call expression
C20_ButCallIndex ==
  (Done("replaceChildSyntax") /\ arg.root # AUTH) =>
    IF \E i \in 1..Len(arg.steps) : arg.steps[i] = CallIndex
      THEN ret.threw /\ ret.error = "TypeError"
      ELSE ~ret.threw /\ ret.code = C12_Compared(C20_Chain(arg.root, arg.steps), arg.wrap)

(***************************************************************************)
(* replaceFirebaseIdentifiers(value)                                       *)
(***************************************************************************)
RenameRoots == {<<"next">>, <<"prev">>, <<"root">>, <<"x">>}
\* a property named like a snapshot, a bare snapshot index, a member chain
\* as index, a member chain as argument
RenameSteps == {<<".", "next">>, <<"[", "prev", "]">>, <<"[", "next", ".", "prev", "]">>,
                <<".", "hasChild", "(", "prev", ".", "root", ")">>}

InitIdentifiers ==
  /\ registry = BuiltinRegistry
  /\ op = "replaceFirebaseIdentifiers" /\ pc = "call"
  /\ \E n \in 0..MaxSteps :
       \E steps \in [1..n -> RenameSteps], root \in RenameRoots :
         arg = [value |-> root \o Concat(steps), root |-> root, steps |-> steps]
  /\ ret = Nothing

ReplaceFirebaseIdentifiers ==
  /\ op = "replaceFirebaseIdentifiers" /\ pc = "call"
  /\ ret' = replaceFirebaseIdentifiers(arg.value)
  /\ pc' = "done"
  /\ UNCHANGED <<registry, op, arg>>

SpecIdentifiers == InitIdentifiers /\ [][ReplaceFirebaseIdentifiers]_vars

\* next, prev, root to newData, data, root
C13_Renamed(name) ==
  CASE name = "next" -> "newData"
    [] name = "prev" -> "data"
    [] OTHER -> name
\* the identifier that opens an index or an argument list is a root; the
\* one after a dot is a property name
C13_Step(step) ==
  [i \in 1..Len(step) |-> IF i > 1 /\ step[i - 1] \in {"[", "("} THEN C13_Renamed(step[i]) ELSE step[i]]
C13_Chain(root, steps) ==
  <<C13_Renamed(root[1])>> \o Concat([i \in 1..Len(steps) |-> C13_Step(steps[i])])

\* C13: replaceFirebaseIdentifiers renames the identifiers next, prev, root
\* that stand at the root of an expression, also of an index expression or
\* of a call argument, and no identifier in a property-name position.
C13_RenamesRoots ==
  Done("replaceFirebaseIdentifiers") =>
    /\ ~ret.threw
    /\ ret.code = C13_Chain(arg.root, arg.steps)

\* the same, for chains without a bare identifier as index
C13_ButBareIndex ==
  (Done("replaceFirebaseIdentifiers") /\ \A i \in 1..Len(arg.steps) : arg.steps[i] # <<"[", "prev", "]">>) =>
    /\ ~ret.threw
    /\ ret.code = C13_Chain(arg.root, arg.steps)

(***************************************************************************)
(* A session: registerFunction, replaceFunctions and parse called one      *)
(* after the other.  arg is the log of the calls made so far, ret the      *)
(* result of the last compilation.                                         *)
(***************************************************************************)
MaxCalls == 3

SessionNames == {<<"oneOf">>, <<"custom">>}
SessionCallbacks == {"oneOf", "custom"}
\* .functions: {'oneOf(a)': 'a === 1', 'custom(a)': 'a === 1'}
SessionBody == <<"a", "===", "1">>
SessionFunctions == <<Declared(<<"oneOf">>, <<<<"a">>>>, SessionBody),
                      Declared(<<"custom">>, <<<<"a">>>>, SessionBody)>>
\* NAME('next')
SessionCall(name) == name \o <<"(", "'", "next", "'", ")">>
SessionRules(name) ==
  <<Entry(FUNCTIONS, Obj(<<Entry(CallText(name, <<<<"a">>>>), Str(SessionBody))>>)),
    Entry(<<".write">>, Str(SessionCall(name)))>>

InitSession ==
  /\ registry = BuiltinRegistry
  /\ op = "session" /\ pc = "call"
  /\ arg = <<>>
  /\ ret = Nothing

SessionRegister ==
  /\ op = "session" /\ Len(arg) < MaxCalls
  /\ \E name \in SessionNames, fn \in SessionCallbacks :
       /\ registry' = registerFunction(registry, name, fn)
       /\ arg' = Append(arg, [call |-> "registerFunction", name |-> name, fn |-> fn, declared |-> FALSE])
  /\ UNCHANGED <<op, pc, ret>>

SessionReplace ==
  /\ op = "session" /\ Len(arg) < MaxCalls
  /\ \E name \in SessionNames, declared \in BOOLEAN :
       /\ ret' = replaceFunctions(SessionCall(name),
                                  Options(IF declared THEN SessionFunctions ELSE <<>>, <<>>, NoParent),
                                  registry)
       /\ arg' = Append(arg, [call |-> "replaceFunctions", name |-> name, fn |-> "", declared |-> declared])
  /\ UNCHANGED <<registry, op, pc>>

SessionParse ==
  /\ op = "session" /\ Len(arg) < MaxCalls
  /\ \E name \in SessionNames :
       /\ ret' = parse(SessionRules(name), EmptyOptions, registry)
       /\ arg' = Append(arg, [call |-> "parse", name |-> name, fn |-> "", declared |-> TRUE])
  /\ UNCHANGED <<registry, op, pc>>

NextSession == SessionRegister \/ SessionReplace \/ SessionParse
SpecSession == InitSession /\ [][NextSession]_vars

SessionLast == arg[Len(arg)]
SessionCalled(call) == op = "session" /\ arg # <<>> /\ SessionLast.call = call

\* C14: a call whose callee is both declared in .functions and registered
\* is replaced by the body of the declared function with the argument put
\* in; the text the registered callback returns is not used.
C14_DeclaredFirst ==
  (SessionCalled("replaceFunctions") /\ SessionLast.declared /\ HasKey(registry, SessionLast.name)) =>
    /\ ~ret.threw
    /\ ret.code = <<"'", "next", "'", " ", "===", " ", "1">>

\* custom is registered, then called where custom(a) is declared
C14_Witness ==
  /\ SessionCalled("replaceFunctions") /\ SessionLast.declared
  /\ SessionLast.name = <<"custom">>
  /\ Len(arg) = 2 /\ arg[1].call = "registerFunction" /\ arg[1].name = <<"custom">>
  /\ Get(registry, <<"custom">>) = "custom"
  /\ ret.code = <<"'", "next", "'", " ", "===", " ", "1">>

\* the calls registerFunction(name, ...) in the log
C15_Registrations(name) == {i \in 1..Len(arg) : arg[i].call = "registerFunction" /\ arg[i].name = name}
C15_Latest(name) == CHOOSE i \in C15_Registrations(name) : \A j \in C15_Registrations(name) : j <= i

\* C15: the registry maps a name to the callback of the latest
\* registerFunction call for it; oneOf is the built-in until it is registered
\* again; nothing else is in the registry, whatever compilations were run.
C15_LatestRegistration ==
  op = "session" =>
    /\ \A i \in 1..Len(registry) : registry[i].key \in SessionNames
    /\ \A name \in SessionNames :
         IF C15_Registrations(name) # {}
         THEN HasKey(registry, name) /\ Get(registry, name) = arg[C15_Latest(name)].fn
         ELSE IF name = <<"oneOf">>
         THEN HasKey(registry, name) /\ Get(registry, name) = "oneOf"
         ELSE ~HasKey(registry, name)

\* custom registered twice with a compilation between; oneOf still built in
C15_Witness ==
  /\ op = "session" /\ Len(arg) = 3
  /\ arg[1].call = "registerFunction" /\ arg[1].name = <<"custom">> /\ arg[1].fn = "oneOf"
  /\ arg[2].call = "parse"
  /\ arg[3].call = "registerFunction" /\ arg[3].name = <<"custom">> /\ arg[3].fn = "custom"
  /\ Get(registry, <<"custom">>) = "custom"
  /\ Get(registry, <<"oneOf">>) = "oneOf"

(***************************************************************************)
(* index.convert(input, output), statement by statement.                   *)
(*   arg  the file system as the call finds it: whether the input file     *)
(*        exists and the rules it holds, and the output path: "none" when  *)
(*        it is not given, "dir" when its directory exists, "nodir" when   *)
(*        it does not                                                      *)
(*   ret  what the call has done so far: the rules, whether parse was      *)
(*        called, whether the output file was written, the error thrown    *)
(*   pc   "call", "loaded" after yaml.safeLoad, "parsed" after parse,      *)
(*        "done" when the call has returned or thrown                      *)
(***************************************************************************)
ConvertOutputs == {"none", "dir", "nodir"}
ConvertRules == {decl \o <<Entry(WRITE, Str(leaf))>> : decl \in NodeDecls, leaf \in LeafTexts}
Progress(rules, compiled, written, threw, error) ==
  [rules |-> rules, compiled |-> compiled, written |-> written, threw |-> threw, error |-> error]
NoError == [kind |-> "", detail |-> <<>>]
\* r: what parse gave
AfterParse(r) == Progress(r.rules, TRUE, FALSE, r.threw, r.error)

InitConvert ==
  /\ registry = BuiltinRegistry
  /\ op = "convert" /\ pc = "call"
  /\ arg \in [exists : BOOLEAN, rules : ConvertRules, output : ConvertOutputs]
  /\ ret = Nothing

\* if (!existsSync(input)) throw ...; rulesJSON = yaml.safeLoad(readFileSync(input))
ConvertLoad ==
  /\ op = "convert" /\ pc = "call"
  /\ IF arg.exists
     THEN /\ ret' = Progress(arg.rules, FALSE, FALSE, FALSE, NoError)
          /\ pc' = "loaded"
     ELSE /\ ret' = Progress(<<>>, FALSE, FALSE, TRUE, [kind |-> "Input not found", detail |-> <<>>])
          /\ pc' = "done"
  /\ UNCHANGED <<registry, op, arg>>

\* parse(rulesJSON)
ConvertParse ==
  /\ op = "convert" /\ pc = "loaded"
  /\ ret' = AfterParse(parse(ret.rules, EmptyOptions, registry))
  /\ pc' = IF ret'.threw THEN "done" ELSE "parsed"
  /\ UNCHANGED <<registry, op, arg>>

\* if (!output) return; if (!existsSync(dirname(output))) throw ...; writeFileSync(...)
ConvertWrite ==
  /\ op = "convert" /\ pc = "parsed"
  /\ ret' = CASE arg.output = "none" -> ret
              [] arg.output = "dir" -> [ret EXCEPT !.written = TRUE]
              [] OTHER -> [ret EXCEPT !.threw = TRUE,
                                      !.error = [kind |-> "Output directory not found", detail |-> <<>>]]
  /\ pc' = "done"
  /\ UNCHANGED <<registry, op, arg>>

NextConvert == ConvertLoad \/ ConvertParse \/ ConvertWrite
SpecConvert == InitConvert /\ [][NextConvert]_vars

\* C17: when the input file does not exist, or an output path is given
\* whose directory does not exist, convert throws the error for it without
\* having called parse and without having written a file.
C17_FailsBeforeCompiling ==
  (Done("convert") /\ (~arg.exists \/ arg.output = "nodir")) =>
    /\ ret.threw
    /\ ret.error.kind = (IF ~arg.exists THEN "Input not found" ELSE "Output directory not found")
    /\ ~ret.compiled
    /\ ~ret.written

\* the same for the missing input alone
C17_MissingInput ==
  (Done("convert") /\ ~arg.exists) =>
    ret.threw /\ ret.error.kind = "Input not found" /\ ~ret.compiled /\ ~ret.written

(***************************************************************************)
(* replaceFunctions on calls of the built-in oneOf                         *)
(***************************************************************************)
MaxKeys == 3

\* a key as it is written, and as it is printed
OneOfKeys == {<<"'", "a", "'">>, <<"\"", "b", "\"">>, <<"1">>, <<"true">>}
OneOfForms == {"array", "arrayAndSnapshot", "variadic"}
OneOfText(keys, form) ==
  CASE form = "array" -> <<"oneOf", "(", "[">> \o Join(keys, <<",">>) \o <<"]", ")">>
    [] form = "arrayAndSnapshot" ->
         <<"oneOf", "(", "[">> \o Join(keys, <<",">>) \o <<"]", ",", "'", "prev", "'", ")">>
    [] OTHER -> <<"oneOf", "(">> \o Join(keys, <<",">>) \o <<")">>

InitOneOf ==
  /\ registry = BuiltinRegistry
  /\ op = "replaceFunctions" /\ pc = "call"
  /\ \E n \in 0..MaxKeys :
       \E keys \in [1..n -> OneOfKeys], form \in OneOfForms :
         arg = [value |-> OneOfText(keys, form), options |-> EmptyOptions, keys |-> keys, form |-> form]
  /\ ret = Nothing

SpecOneOf == InitOneOf /\ [][ReplaceFunctions]_vars

\* a string key in single quotes, any other literal as it is
C16_Key(key) == IF key[1] \in Quote THEN <<"'", key[2], "'">> ELSE key
C16_Disjunction(keys, snapshot) ==
  Join([i \in 1..Len(keys) |-> snapshot \o <<" ", "===", " ">> \o C16_Key(keys[i])], <<" ", "||", " ">>)

ScopeFns ==
  {<<>>,
   <<Entry(<<"isAuthed", "(", ")">>, Str(<<"auth", "!==", "null">>))>>,
   <<Entry(<<"isAuthed", "(", ")">>, Str(<<"auth", ".", "admin">>))>>,
   <<Entry(<<"isAuthed", "(", "user", ")">>, Str(<<"auth", ".", "uid", "===", "user">>))>>,
   <<Entry(<<"g", "(", "a", ")">>, Str(<<"a", ".", "isString", "(", ")">>))>>}
ScopeRefs ==
  {<<>>,
   <<Entry(<<"r">>, Str(<<"next">>))>>,
   <<Entry(<<"r">>, Str(<<"prev">>))>>,
   <<Entry(<<"q">>, Str(<<"root">>))>>,
   <<Entry(<<"$", "g">>, Str(<<"root">>))>>}
ScopeRules == {Ruleset(fns, refs, key) : fns \in ScopeFns, refs \in ScopeRefs, key \in ChildKeys}

\* path: the rulesets above the one at hand, as they were written
InitScope ==
  /\ registry = BuiltinRegistry
  /\ op = "getOptions" /\ pc = "call"
  /\ arg \in [rules : ScopeRules, options : {EmptyOptions}, level : {0}, path : {<<>>}]
  /\ ret = Nothing

\* parse(rule, options) for a child ruleset
DescendScope ==
  /\ op = "getOptions" /\ pc = "done"
  /\ ~ret.threw
  /\ arg.level < MaxDescents
  /\ \E rules \in ScopeRules :
       arg' = [rules |-> rules, options |-> ret.options, level |-> arg.level + 1,
               path |-> Append(arg.path, arg.rules)]
  /\ ret' = Nothing
  /\ pc' = "call"
  /\ UNCHANGED <<registry, op>>

NextScope == GetOptions \/ DescendScope
SpecScope == InitScope /\ [][NextScope]_vars

\* getOptions has returned for a ruleset below the root
Resolved == Done("getOptions") /\ ~ret.threw /\ arg.level > 0
\* the $wildcard keys of the parent ruleset
ParentWildcards == {key \in {arg.options.parent.keys[i] : i \in 1..Len(arg.options.parent.keys)} : IsWildcard(key)}
\* the rulesets from the root to the one at hand that declare the ref
C22_Declaring(name) ==
  LET path == Append(arg.path, arg.rules) IN
  {i \in 1..Len(path) : HasKey(PickSpecial(path[i], REFS), name)}
C22_Innermost(name) == CHOOSE i \in C22_Declaring(name) : \A j \in C22_Declaring(name) : j <= i
C22_Explicit(name) == Get(PickSpecial(Append(arg.path, arg.rules)[C22_Innermost(name)], REFS), name).text

\* C22: for every $wildcard key of the parent ruleset, getOptions returns
\* the value of the explicit declaration of a ref of that name when one is
\* in scope, and the implicit ref prev (depth 0) only when there is none.
C22_ExplicitWins ==
  Resolved =>
    \A w \in ParentWildcards :
      /\ HasKey(ret.options.refs, w)
      /\ IF C22_Declaring(w) # {}
         THEN Get(ret.options.refs, w).value = C22_Explicit(w)
         ELSE Get(ret.options.refs, w) = RefDef(<<"prev">>, 0)

\* what the code does: the implicit ref whatever is declared
C22_ButAlwaysPrev ==
  Resolved => \A w \in ParentWildcards : Get(ret.options.refs, w) = RefDef(<<"prev">>, 0)

\* the keys of a map of declarations
KeySet(ents) == {ents[i].key : i \in 1..Len(ents)}

C24_IdentityIsName ==
  (Done("getOptions") /\ ~ret.threw) =>
    LET localFns == PickSpecial(arg.rules, FUNCTIONS)
        fns == ret.options.functions
    IN /\ \A i, j \in 1..Len(fns) : fns[i].val.name = fns[j].val.name => i = j
       /\ \A key \in KeySet(localFns) :
            findFn(fns, Lex(key, 1)[1].v) =
              FunctionDef(Get(localFns, key).text, Lex(key, 1)[1].v, C9_Params(key))

\* what the code does: one definition for every declaration header
C24_ButIdentityIsHeader ==
  (Done("getOptions") /\ ~ret.threw) =>
    \A i, j \in 1..Len(ret.options.functions) :
      ret.options.functions[i].key = ret.options.functions[j].key => i = j

(***************************************************************************)
(* getOptions with the objects it shares and changes in place.  The heap   *)
(* is a sequence of objects and an address is an index into it:            *)
(*   a map of declarations: its entries, each a string or the address of   *)
(*   a ref or function object; a ref or function object; an options record *)
(*   with the addresses of its two maps.                                   *)
(***************************************************************************)
StrCell(text) == [ptr |-> 0, str |-> text]
PtrCell(a) == [ptr |-> a, str |-> <<>>]
MapObject(ents) == [kind |-> "map", ents |-> ents]
ValObject(val) == [kind |-> "val", val |-> val]
OptionsObject(f, r, parent) == [kind |-> "options", functions |-> f, refs |-> r, parent |-> parent]

\* the source object itself is assigned: source and destination share it
mergeEntry_Mutant(h, dst, key, cell) ==
  [h EXCEPT ![dst].ents = Put(h[dst].ents, key, cell)]
\* lodash merge of one property into the map at dst: a string is assigned;
\* a plain object is merged into the object the destination has under the
\* key, and into a new object when it has none
mergeEntry(h, dst, key, cell) ==
  IF cell.ptr = 0 THEN [h EXCEPT ![dst].ents = Put(h[dst].ents, key, cell)]
  ELSE IF HasKey(h[dst].ents, key) /\ Get(h[dst].ents, key).ptr # 0
    THEN [h EXCEPT ![Get(h[dst].ents, key).ptr] = h[cell.ptr]]
  ELSE [Append(h, h[cell.ptr]) EXCEPT ![dst].ents = Put(h[dst].ents, key, PtrCell(Len(h) + 1))]

RECURSIVE mergeMap(_, _, _)
mergeMap(h, dst, src) ==
  IF src = <<>> THEN h
  ELSE mergeMap(mergeEntry(h, dst, Head(src).key, Head(src).val), dst, Tail(src))

\* the declarations of a ruleset node: strings
LocalCells(ents) == [i \in 1..Len(ents) |-> Entry(ents[i].key, StrCell(ents[i].val.text))]
\* the entries of the map of an options record; no record is {}
MapOf(h, o, field) == IF o = 0 THEN <<>> ELSE h[IF field = "refs" THEN h[o].refs ELSE h[o].functions].ents

\* a frame: the heap and the addresses of the new .functions and .refs maps
Frame(h, f, r) == [h |-> h, f |-> f, r |-> r]
\* merge({}, {'.functions': {}, '.refs': {}}, prev, next)
merged(h, rules, o) ==
  Frame(mergeMap(mergeMap(mergeMap(mergeMap(h \o <<MapObject(<<>>), MapObject(<<>>)>>,
                                            Len(h) + 1, MapOf(h, o, "functions")),
                                   Len(h) + 1, LocalCells(PickSpecial(rules, FUNCTIONS))),
                          Len(h) + 2, MapOf(h, o, "refs")),
                 Len(h) + 2, LocalCells(PickSpecial(rules, REFS))),
        Len(h) + 1, Len(h) + 2)

\* refs[key] = 'prev'
RECURSIVE injectedHeap(_, _, _)
injectedHeap(h, r, keys) ==
  IF keys = <<>> THEN h
  ELSE injectedHeap(IF IsWildcard(Head(keys))
                    THEN [h EXCEPT ![r].ents = Put(h[r].ents, Head(keys), StrCell(<<"prev">>))]
                    ELSE h,
                    r, Tail(keys))

\* expandRefs(refs): a string becomes a new object, an object is changed
\* where it is (++ref.depth)
RECURSIVE expandRefsHeap(_, _, _)
expandRefsHeap(h, r, i) ==
  IF i > Len(h[r].ents) THEN h
  ELSE IF h[r].ents[i].val.ptr = 0
    THEN expandRefsHeap([Append(h, ValObject(expandRef(RefString(h[r].ents[i].val.str))))
                           EXCEPT ![r].ents[i].val = PtrCell(Len(h) + 1)], r, i + 1)
  ELSE expandRefsHeap([h EXCEPT ![h[r].ents[i].val.ptr].val = expandRef(@)], r, i + 1)

\* expandFunctions(functions) for valid declarations: a string becomes a new
\* object, an object is left as it is
RECURSIVE expandFunctionsHeap(_, _, _)
expandFunctionsHeap(h, f, i) ==
  IF i > Len(h[f].ents) THEN h
  ELSE IF h[f].ents[i].val.ptr = 0
    THEN expandFunctionsHeap([Append(h, ValObject(expandFunction(h[f].ents[i].key,
                                                                 FnString(h[f].ents[i].val.str))))
                                EXCEPT ![f].ents[i].val = PtrCell(Len(h) + 1)], f, i + 1)
  ELSE expandFunctionsHeap(h, f, i + 1)

\* options['.parent'] = rules; return options: the heap, and the address of
\* the options returned
returned(h, f, r, parent) == [h |-> Append(h, OptionsObject(f, r, parent)), o |-> Len(h) + 1]
expanded(st, keys, parent) ==
  returned(expandFunctionsHeap(expandRefsHeap(injectedHeap(st.h, st.r, keys), st.r, 1), st.f, 1),
           st.f, st.r, parent)
\* o: the address of the options of the parent ruleset, 0 when there is none
getOptionsHeap(h, rules, o) ==
  expanded(merged(h, rules, o),
           IF o = 0 THEN <<>> ELSE h[o].parent.keys,
           ParentOf(KeysOf(RemoveSpecial(rules))))

\* the options record at an address, read through the heap
DerefMap(h, ents, isRef) ==
  [i \in 1..Len(ents) |->
     Entry(ents[i].key,
           IF ents[i].val.ptr # 0 THEN h[ents[i].val.ptr].val
           ELSE IF isRef THEN RefString(ents[i].val.str) ELSE FnString(ents[i].val.str))]
Deref(h, o) == Options(DerefMap(h, h[h[o].functions].ents, FALSE), DerefMap(h, h[h[o].refs].ents, TRUE), h[o].parent)

(***************************************************************************)
(* parse: the children of one ruleset resolved one after the other against *)
(* the options of the ruleset                                              *)
(***************************************************************************)
MaxSiblings == 2

FrameFns ==
  {<<>>,
   <<Entry(<<"isAuthed", "(", ")">>, Str(<<"auth", ".", "admin">>))>>,
   <<Entry(<<"isAuthed", "(", "user", ")">>, Str(<<"auth", ".", "uid", "===", "user">>))>>}
FrameRefs ==
  {<<>>, <<Entry(<<"r">>, Str(<<"prev">>))>>, <<Entry(<<"$", "g">>, Str(<<"root">>))>>}
FrameRules == {Ruleset(fns, refs, key) : fns \in FrameFns, refs \in FrameRefs, key \in ChildKeys}

\* the heap after getOptions(rules) for the parent ruleset
Resolving(out, rules) ==
  [heap |-> out.h, initial |-> out.h, parent |-> out.o, before |-> Deref(out.h, out.o),
   rules |-> rules, count |-> 0]
InitFrame ==
  /\ registry = BuiltinRegistry
  /\ op = "parse children" /\ pc = "call"
  /\ \E rules \in FrameRules : arg = Resolving(getOptionsHeap(<<>>, rules, 0), rules)
  /\ ret = Nothing

\* parse(rule, options) for the next child: options = getOptions(rule, options)
ResolvedChild(out, rules) ==
  /\ arg' = [arg EXCEPT !.heap = out.h, !.rules = rules, !.count = @ + 1]
  /\ ret' = Deref(out.h, out.o)
ResolveChild ==
  /\ op = "parse children"
  /\ arg.count < MaxSiblings
  /\ \E rules \in FrameRules : ResolvedChild(getOptionsHeap(arg.heap, rules, arg.parent), rules)
  /\ pc' = "done"
  /\ UNCHANGED <<registry, op>>

SpecFrame == InitFrame /\ [][ResolveChild]_vars

\* the heap model returns the options of the model without a heap
HeapAgrees ==
  (op = "parse children" /\ pc = "done") => ret = getOptions(arg.rules, arg.before).options

\* C25: getOptions leaves the options of the parent as they were: whatever
\* children have been resolved, the parent's .refs (values and depths) and
\* .functions are those it had before, and a child resolves to the options
\* it would have resolved to as the first child.
C25_ParentUnchanged ==
  op = "parse children" =>
    /\ Deref(arg.heap, arg.parent).refs = arg.before.refs
    /\ Deref(arg.heap, arg.parent).functions = arg.before.functions
    /\ pc = "done" => ret = Deref(getOptionsHeap(arg.initial, arg.rules, arg.parent).h,
                                   getOptionsHeap(arg.initial, arg.rules, arg.parent).o)

\* two children have inherited the ref r, each at depth 1, and the parent
\* still holds it at depth 0
C25_Witness ==
  /\ op = "parse children" /\ pc = "done" /\ arg.count = 2
  /\ Deref(arg.heap, arg.parent).refs = <<Entry(<<"r">>, RefDef(<<"prev">>, 0))>>
  /\ arg.rules = Ruleset(<<>>, <<>>, <<"users">>)
  /\ ret.refs = <<Entry(<<"r">>, RefDef(<<"prev">>, 1))>>

(***************************************************************************)
(* parse(rules) for rulesets that hold strings, booleans, numbers and      *)
(* rulesets                                                                *)
(***************************************************************************)
MaxEntries == 3

\* the key of the i-th entry of the root
EntryKeys == <<READ, <<".indexOn">>, <<"users">>, <<"$", "g">>, WRITE>>
FLAG == <<".flag">>
VAL_LENGTH == <<"next", ".", "val", "(", ")", ".", "length">>
LeafValues ==
  {Str(<<"next", ".", "x", "===", "auth", ".", "uid">>),
   Str(VAL_LENGTH),
   Scalar(<<"true">>),
   Scalar(<<"1">>),
   Obj(<<Entry(REFS, Obj(<<Entry(<<"r">>, Str(<<"next">>))>>)),
         Entry(WRITE, Str(<<"^", "r", ".", "x">>)),
         Entry(FLAG, Scalar(<<"false">>))>>),
   Obj(<<Entry(<<"deep">>, Obj(<<Entry(PARENT, Obj(<<>>)), Entry(READ, Scalar(<<"0">>))>>))>>)}
RootDecls == {<<>>, <<Entry(FUNCTIONS, Obj(<<Entry(<<"foo", "(", ")">>, Str(<<"auth", "!==", "null">>))>>))>>}

InitLeaves ==
  /\ registry = BuiltinRegistry
  /\ op = "parse" /\ pc = "call"
  /\ \E n \in 0..MaxEntries :
       \E values \in [1..n -> LeafValues], decls \in RootDecls :
         arg = [rules |-> decls \o [i \in 1..n |-> Entry(EntryKeys[i], values[i])]]
  /\ ret = Nothing

SpecLeaves == InitLeaves /\ [][Parse]_vars

\* the ruleset after has the keys of the ruleset before but the special
\* keys; a boolean or a number is the same, a string is a string, and a
\* ruleset is a ruleset of which the same holds
RECURSIVE C26_Same(_, _)
C26_Same(before, after) ==
  /\ KeySet(after) = {key \in KeySet(before) : ~IsSpecial(key)}
  /\ Len(after) = Cardinality(KeySet(after))
  /\ \A key \in KeySet(after) :
       /\ Get(after, key).kind = Get(before, key).kind
       /\ Get(before, key).kind = "scalar" => Get(after, key) = Get(before, key)
       /\ Get(before, key).kind = "object" => C26_Same(Get(before, key).ents, Get(after, key).ents)

\* C26: when parse returns, every ruleset has the keys it had but the
\* special keys, the rulesets are nested as they were, strings are still
\* strings, and booleans and numbers have the value they had.
C26_OnlyStringsChange ==
  (Done("parse") /\ ~ret.threw) => C26_Same(arg.rules, ret.rules)

\* a number beside a ruleset whose rule was compiled and whose .refs was
\* removed, its boolean left alone
C26_Witness ==
  /\ Done("parse") /\ ~ret.threw
  /\ arg.rules = <<Entry(READ, Scalar(<<"1">>)),
                   Entry(<<".indexOn">>, Obj(<<Entry(REFS, Obj(<<Entry(<<"r">>, Str(<<"next">>))>>)),
                                              Entry(WRITE, Str(<<"^", "r", ".", "x">>)),
                                              Entry(FLAG, Scalar(<<"false">>))>>))>>
  /\ ret.rules = <<Entry(READ, Scalar(<<"1">>)),
                   Entry(<<".indexOn">>,
                         Obj(<<Entry(WRITE, Str(<<"newData", ".", "child", "(", "'", "x", "'", ")",
                                                  ".", "val", "(", ")">>)),
                               Entry(FLAG, Scalar(<<"false">>))>>))>>

\* the values of the rules of a ruleset that were written as a given text
CompiledFrom(text) ==
  {Get(ret.rules, arg.rules[i].key) : i \in {j \in 1..Len(arg.rules) : arg.rules[j].val = Str(text)}}

\* C28: a property read from an explicit .val() is kept: the rule
\* next.val().length compiles to newData.val().length, with no .val() added
\* and no child() call made of the property.
C28_ValuePropertyKept ==
  (Done("parse") /\ ~ret.threw) =>
    CompiledFrom(VAL_LENGTH) \subseteq {Str(<<"newData", ".", "val", "(", ")", ".", "length">>)}

\* what the code does: no .val() is added, and the property becomes a
\* child() call
C28_ButChildCall ==
  /\ (Done("parse") /\ ~ret.threw) =>
       CompiledFrom(VAL_LENGTH) \subseteq
         {Str(<<"newData", ".", "val", "(", ")", ".", "child", "(", "'", "length", "'", ")">>)}
  /\ coerceVal(VAL_LENGTH).code = VAL_LENGTH
  /\ replaceChildSyntax(VAL_LENGTH).code =
       <<"next", ".", "val", "(", ")", ".", "child", "(", "'", "length", "'", ")">>

(***************************************************************************)
(* parse(rules) called several times in one process, with registerFunction *)
(* calls in between                                                        *)
(*   log       the compilations so far: the rules, the registry at the     *)
(*             call, the result                                            *)
(*   previous  the options the last compilation resolved for its root      *)
(***************************************************************************)
MaxRuns == 3

RunRules ==
  {<<Entry(FUNCTIONS, Obj(<<Entry(<<"foo", "(", ")">>, Str(<<"auth", "!==", "null">>))>>)),
     Entry(WRITE, Str(<<"foo", "(", ")">>))>>,
   <<Entry(WRITE, Str(<<"foo", "(", ")">>))>>,
   <<Entry(REFS, Obj(<<Entry(<<"r">>, Str(<<"next">>))>>)), Entry(READ, Str(<<"^", "r", ".", "x">>))>>,
   <<Entry(<<"$", "g">>, Obj(<<Entry(READ, Str(<<"^", "r", ".", "x", "===", "^", "$", "g">>))>>))>>,
   <<Entry(WRITE, Str(<<"custom", "(", "'", "next", "'", ")">>))>>}

\* the options of the last call are the default of the next
defaultOptions_Mutant(previous) == previous
\* parse (rules, options={}): the default is a new object at every call
defaultOptions(previous) == EmptyOptions

InitRuns ==
  /\ registry = BuiltinRegistry
  /\ op = "compile" /\ pc = "call"
  /\ arg = [log |-> <<>>, previous |-> EmptyOptions]
  /\ ret = Nothing

RunRegister ==
  /\ op = "compile" /\ Len(arg.log) < MaxRuns
  /\ \E fn \in SessionCallbacks :
       /\ registry # registerFunction(registry, <<"custom">>, fn)
       /\ registry' = registerFunction(registry, <<"custom">>, fn)
  /\ UNCHANGED <<op, pc, arg, ret>>

Compiled(rules, o, r) ==
  /\ arg' = [log |-> Append(arg.log, [rules |-> rules, registry |-> registry, result |-> r]),
             previous |-> o.options]
  /\ ret' = r
RunParse ==
  /\ op = "compile" /\ Len(arg.log) < MaxRuns
  /\ \E rules \in RunRules :
       Compiled(rules, getOptions(rules, defaultOptions(arg.previous)),
                parse(rules, defaultOptions(arg.previous), registry))
  /\ pc' = "done"
  /\ UNCHANGED <<registry, op>>

NextRuns == RunRegister \/ RunParse
SpecRuns == InitRuns /\ [][NextRuns]_vars

====
